---- MODULE Spec2Model ----
(***************************************************************************)
(* Model of the reasoning orchestration core of metacog (src/src/index.ts):*)
(* OmniCognizantTactician.executeReasoningChain, its step loop, the        *)
(* cognitive strategy selector, the convergence evaluator and the          *)
(* performance tracker, and the tool layer MetacognitionMCP.processThought *)
(* with its cognitive states and conceptual links.                         *)
(*                                                                         *)
(* JavaScript numbers are modelled as exact rationals <<n, d>> (d > 0, in  *)
(* lowest terms); undefined is modelled by None, and NoNum stands for both *)
(* an undefined number and NaN, which the arithmetic propagates.           *)
(***************************************************************************)
EXTENDS Integers, Sequences, FiniteSets, TLC

\* undefined, for a name, a number and a list
None == "none"
NoNum == <<0, 0>>
NoList == <<None>>

---------------------------------------------------------------------------
(* Exact rational arithmetic standing for the number arithmetic of the code *)

RECURSIVE GCD(_, _)
GCD(a, b) == IF b = 0 THEN a ELSE GCD(b, a % b)

Abs(x) == IF x < 0 THEN -x ELSE x

Norm(n, d) ==
    LET g == GCD(Abs(n), d) IN <<n \div g, d \div g>>

LCM(a, b) == (a \div GCD(a, b)) * b

Num(n) == <<n, 1>>

RAdd(x, y) ==
    IF x = NoNum \/ y = NoNum THEN NoNum
    ELSE LET l == LCM(x[2], y[2])
         IN  Norm(x[1] * (l \div x[2]) + y[1] * (l \div y[2]), l)

RNeg(x) == <<-x[1], x[2]>>

RSub(x, y) == RAdd(x, RNeg(y))

RMul(x, y) ==
    IF x = NoNum \/ y = NoNum THEN NoNum
    ELSE LET g1 == GCD(Abs(x[1]), y[2])
             g2 == GCD(Abs(y[1]), x[2])
         IN  Norm((x[1] \div g1) * (y[1] \div g2),
                  (x[2] \div g2) * (y[2] \div g1))

\* x / n for a positive integer n
RDivInt(x, n) == RMul(x, <<1, n>>)

\* x <= y, false when one of them is NaN
RLeq(x, y) ==
    IF x = NoNum \/ y = NoNum THEN FALSE
    ELSE LET l == LCM(x[2], y[2])
         IN  x[1] * (l \div x[2]) <= y[1] * (l \div y[2])

\* x < y, false when one of them is NaN
RLt(x, y) == IF x = NoNum \/ y = NoNum THEN FALSE ELSE ~RLeq(y, x)

\* Math.max(x, y)
RMax(x, y) ==
    IF x = NoNum \/ y = NoNum THEN NoNum ELSE IF RLeq(x, y) THEN y ELSE x

\* Math.min(x, y)
RMin(x, y) ==
    IF x = NoNum \/ y = NoNum THEN NoNum ELSE IF RLeq(x, y) THEN x ELSE y

\* the sum of the first j numbers of a sequence
RECURSIVE RSumTo(_, _)
RSumTo(xs, j) == IF j = 0 THEN Num(0) ELSE RAdd(RSumTo(xs, j - 1), xs[j])

RSum(xs) == RSumTo(xs, Len(xs))

InUnit(x) == RLeq(Num(0), x) /\ RLeq(x, Num(1))

---------------------------------------------------------------------------
(* Bounds of the model *)

\* largest configured reasoning.maxStepsPerChain the model constructs
MaxStepsCfg == 2

\* Math.random() is drawn from {0, 1/RandomGrid, ..., (RandomGrid-1)/RandomGrid}
RandomGrid == 2

\* Date.now() reads 0..MaxClock
MaxClock == 1

\* largest thoughtHistory.length the model constructs
MaxThoughts == 3

\* largest number of constraints of a constraint satisfaction problem
MaxConstraints == 2

\* the steps one run of resolveSequentially appends at most in the model
MaxSequenceSteps == 2

\* the values of a constraint satisfaction variable are 1..MaxValue
MaxValue == 2

---------------------------------------------------------------------------
(* Program constants *)

DefaultConvergenceTarget == <<99, 100>>
FallbackConvergenceTarget == <<85, 100>>
DefaultMaxStepsPerChain == 10
SelectorDecay == <<95, 100>>
\* a resolution that decays like a selector measurement
ResolveDecay_Selector == <<95, 100>>
\* a resolution that raises the coherence
ResolveDecay_Growth == <<11, 10>>
ResolveDecay == <<9, 10>>
\* a success threshold of 0.8
SuccessThreshold_Strict == <<8, 10>>
SuccessThreshold == <<7, 10>>

\* enum ReasoningStrategy
ReasoningStrategy ==
    <<"Abductive", "Analogical", "BackwardChaining", "Bayesian", "CaseBased",
      "Causal", "ConstraintSatisfaction", "Counterfactual", "Deductive",
      "Defeasible", "Empirical", "Ethical", "Financial", "ForwardChaining",
      "FuzzyLogic", "HypothesisGeneration", "Inductive", "Sequential",
      "PatternAnalysis", "MetacognitiveControl", "OnlineSearch">>

StrategyNames == {ReasoningStrategy[k] : k \in 1..Len(ReasoningStrategy)}

\* a registration of every name of the enum
RegisteredStrategies_All == StrategyNames

\* names OmniCognizantTactician.initializeStrategies registers
RegisteredStrategies == StrategyNames \ {"OnlineSearch"}

\* REASONING_STRATEGY_REGISTRY entries with cognitiveCompatible: true
CognitiveCompatible ==
    SelectSeq(ReasoningStrategy,
              LAMBDA s : s \in {"Abductive", "Deductive", "Inductive",
                                "Bayesian", "Financial", "Sequential"})

---------------------------------------------------------------------------
(* Inputs *)

\* a goal: whether it is a string at all, the number of its words longer
\* than 3 characters and the keywords it contains: 'cause' or 'effect', one
\* of the temporal keywords of selectOptimalStrategies, 'financial'
Goals ==
    { [string |-> FALSE, concepts |-> 0, cause |-> FALSE, temporal |-> FALSE,
       financial |-> FALSE],
      [string |-> TRUE,  concepts |-> 0, cause |-> FALSE, temporal |-> FALSE,
       financial |-> FALSE],
      [string |-> TRUE,  concepts |-> 2, cause |-> TRUE,  temporal |-> FALSE,
       financial |-> FALSE],
      [string |-> TRUE,  concepts |-> 2, cause |-> FALSE, temporal |-> TRUE,
       financial |-> TRUE] }

Domains == {"general"}

StrategyLists ==
    { NoList, <<>>, <<"OnlineSearch">>, <<"Causal">>,
      <<"OnlineSearch", "Causal">> }

Targets == { NoNum, Num(0), <<85, 100>> }

Params ==
    [goal : Goals, domain : Domains, strategies : StrategyLists,
     cognitiveEnhancement : BOOLEAN, convergenceTarget : Targets]

\* what a strategy's executeStep can return: confidence, number of evidence
ConfidenceValues == { Num(0), <<7, 10>>, Num(1) }
EvidenceCounts == {0, 2}

\* the steps come in two shapes: a step without evidence has one premise and
\* no metadata.processingTimeMs (kept as 0, which the code reads the same
\* way); a step with evidence has three premises, two of them with one id,
\* and metadata.processingTimeMs = 10
PremisesOf(evidence) ==
    IF evidence = 0 THEN <<"p1">> ELSE <<"p2", "p1", "p2">>

ProcessingTimeOf(evidence) == IF evidence = 0 THEN 0 ELSE 10

\* constructor arguments: reasoning.convergenceTarget, reasoning.maxStepsPerChain
ConfigArgs ==
    [convergenceTarget : {NoNum, <<99, 100>>, Num(0)},
     maxStepsPerChain : 1..MaxStepsCfg]

\* the invocations of executeReasoningChain the model distinguishes
Chains == {1, 2}

---------------------------------------------------------------------------
(* State *)

VARIABLES
    configArg,            \* the argument the orchestrator was constructed with
    config,               \* this.config.reasoning
    performanceMetrics,   \* this.performanceMetrics: name -> running aggregate
    pc,                   \* position of each invocation
    params,               \* the params of each invocation
    chain,                \* the ReasoningChain of each invocation
    selectedStrategies,   \* local of _executeReasoningSteps
    loopI,                \* loop variable i
    strategyName,         \* the name selected in the current iteration
    stepsExecuted,        \* local of _executeReasoningSteps
    convergenceAchieved,  \* local of _executeReasoningSteps
    result,               \* what executeReasoningChain returned
    selections,           \* history: strategy selections made by the loop
    dispatched,           \* history: calls of strategy.executeStep
    clock,                \* the last reading of Date.now()
    thoughtHistory,       \* MetacognitionMCP.thoughtHistory.length
    cognitiveStates,      \* MetacognitionMCP.cognitiveStates: id -> state
    conceptualLinks,      \* MetacognitionMCP.conceptualLinks: concept -> set
    response              \* the last processThought call that returned:
                          \* its input, its draw and what it returned

tacticianVars ==
    <<configArg, config, performanceMetrics, pc, params, chain,
      selectedStrategies, loopI, strategyName, stepsExecuted,
      convergenceAchieved, result, selections, dispatched>>

mcpVars ==
    <<clock, thoughtHistory, cognitiveStates, conceptualLinks, response>>

vars == <<tacticianVars, mcpVars>>

---------------------------------------------------------------------------
(* Construction *)

\* OmniCognizantTactician.constructor: config.reasoning with its defaults
Constructor(arg) ==
    [convergenceTarget |->
        IF arg.convergenceTarget = NoNum THEN DefaultConvergenceTarget
        ELSE arg.convergenceTarget,
     maxStepsPerChain |->
        IF arg.maxStepsPerChain = -1 THEN DefaultMaxStepsPerChain
        ELSE arg.maxStepsPerChain]

\* initializeStrategies: one tracker record per name of the enum
initializeStrategies ==
    [s \in StrategyNames |->
        [totalExecutions |-> 0, averageConfidence |-> Num(0),
         averageProcessingTime |-> Num(0), successRate |-> Num(1)]]

\* a loop condition with <= in place of <
maxStepsPerChain_OffByOne(cfg) ==
    IF cfg.maxStepsPerChain = 0 THEN DefaultMaxStepsPerChain + 1
    ELSE cfg.maxStepsPerChain + 1

\* this.config.reasoning?.maxStepsPerChain || 10
maxStepsPerChain(cfg) ==
    IF cfg.maxStepsPerChain = 0 THEN DefaultMaxStepsPerChain
    ELSE cfg.maxStepsPerChain

\* the threshold without the configured target: convergenceTarget || 0.85
effectiveTarget_NoConfig(cfg, target) ==
    IF target # NoNum /\ target # Num(0) THEN target
    ELSE FallbackConvergenceTarget

\* convergenceTarget || this.config.reasoning?.convergenceTarget || 0.85
effectiveTarget(cfg, target) ==
    IF target # NoNum /\ target # Num(0) THEN target
    ELSE IF cfg.convergenceTarget # Num(0) THEN cfg.convergenceTarget
    ELSE FallbackConvergenceTarget

---------------------------------------------------------------------------
(* Chain initialisation *)

NoMetrics ==
    [cognitiveCoherence |-> NoNum, strategicAlignment |-> NoNum,
     evidenceConsistency |-> NoNum, conclusionStability |-> NoNum,
     overallConvergence |-> NoNum]

NoCognitiveState ==
    [present |-> FALSE, concepts |-> 0, strategies |-> <<>>,
     conceptualAmplitude |-> <<>>, coherenceLevel |-> Num(1),
     measurementCount |-> 0]

NoConclusion ==
    [present |-> FALSE, bestStep |-> 0, premises |-> <<>>,
     confidence |-> Num(0), convergenceMetrics |-> NoMetrics]

NoResult ==
    [convergenceMetrics |-> NoMetrics, stepsExecuted |-> 0,
     convergenceAchieved |-> FALSE]

\* initializeReasoningChain
initializeReasoningChain ==
    [steps |-> <<>>, cognitiveState |-> NoCognitiveState,
     convergenceScore |-> Num(0), finalConclusion |-> NoConclusion]

Max(a, b) == IF a >= b THEN a ELSE b

\* a superposition that hands out the state of the first invocation when
\* there is one
createCognitiveSuperposition_Shared(goal, strategies) ==
    IF chain[1].cognitiveState.present
    THEN chain[1].cognitiveState
    ELSE [present |-> TRUE,
          concepts |-> goal.concepts,
          strategies |-> IF strategies # NoList THEN strategies
                         ELSE CognitiveCompatible,
          conceptualAmplitude |-> <<>>,
          coherenceLevel |-> Num(1),
          measurementCount |-> 0]

\* createCognitiveSuperposition(goal, strategies).  An amplitude is kept as
\* its squared magnitude confidence^2 + potential^2, which is
\* amplitudeMagnitude^2 (cos^2 + sin^2) = 1/n; with no concept the angle
\* i * PI / 0 is not a number and so is the amplitude (NoNum).
createCognitiveSuperposition(goal, strategies) ==
    LET cognitiveStrategies ==
            IF strategies # NoList THEN strategies ELSE CognitiveCompatible
        n == Max(goal.concepts, Len(cognitiveStrategies))
    IN  [present |-> TRUE,
         concepts |-> goal.concepts,
         strategies |-> cognitiveStrategies,
         conceptualAmplitude |->
            [k \in 1..n |-> IF goal.concepts = 0 THEN NoNum ELSE <<1, n>>],
         coherenceLevel |-> Num(1),
         measurementCount |-> 0]

\* selectOptimalStrategies(goal, context): domain is extractDomain(context)
selectOptimalStrategies(goal, domain) ==
    <<"Abductive", "Bayesian">>
    \o (IF domain \in {"financial", "market"} THEN <<"Financial">> ELSE <<>>)
    \o (IF goal.cause THEN <<"Causal">> ELSE <<>>)
    \o (IF goal.temporal THEN <<"Sequential">> ELSE <<>>)

---------------------------------------------------------------------------
(* Strategy Selector *)

\* weightedRandomSelection(probabilities) with Math.random() = u;
\* the result is a 0-based index
RECURSIVE firstReached(_, _, _, _)
firstReached(probabilities, random, k, cumulative) ==
    IF k > Len(probabilities) THEN Len(probabilities) - 1
    ELSE LET c == RAdd(cumulative, probabilities[k])
         IN  IF RLeq(random, c) THEN k - 1
             ELSE firstReached(probabilities, random, k + 1, c)

weightedRandomSelection(probabilities, u) ==
    LET total == RSum(probabilities)
    IN  IF total = Num(0)
        THEN (u[1] * Len(probabilities)) \div u[2]
        ELSE firstReached(probabilities, RMul(u, total), 1, Num(0))

\* the weights cognitiveSelectStrategy computes
weightedProbabilities(cognitiveState, availableStrategies, metrics) ==
    LET probabilities == cognitiveState.conceptualAmplitude
        at(index) ==
            IF Len(probabilities) = 0 THEN NoNum
            ELSE probabilities[(index % Len(probabilities)) + 1]
    IN  [k \in 1..Len(availableStrategies) |->
            LET strategy == availableStrategies[k]
                baseProb == IF at(k - 1) = NoNum THEN Num(0) ELSE at(k - 1)
                performanceWeight ==
                    IF strategy \in DOMAIN metrics
                    THEN RMul(metrics[strategy].averageConfidence,
                              metrics[strategy].successRate)
                    ELSE <<1, 2>>
            IN  RMul(baseProb, performanceWeight)]

\* a selector that draws among the strategies of the registry
cognitiveSelectStrategy_Registry(cognitiveState, availableStrategies, metrics, u) ==
    CognitiveCompatible[1]

\* cognitiveSelectStrategy: the selected name
cognitiveSelectStrategy(cognitiveState, availableStrategies, metrics, u) ==
    LET selectedIndex ==
            weightedRandomSelection(
                weightedProbabilities(cognitiveState, availableStrategies,
                                      metrics), u)
    IN  IF selectedIndex + 1 \in 1..Len(availableStrategies)
        THEN availableStrategies[selectedIndex + 1]
        ELSE IF Len(availableStrategies) > 0 THEN availableStrategies[1]
        ELSE None

\* a measurement that counts but leaves the coherence as it was
measured_NoDecay(cognitiveState) ==
    [cognitiveState EXCEPT !.measurementCount = @ + 1]

\* cognitiveSelectStrategy: its update of the cognitive state
measured(cognitiveState) ==
    [cognitiveState EXCEPT
        !.measurementCount = @ + 1,
        !.coherenceLevel = RMul(@, SelectorDecay)]

\* a selection that stays on the first candidate
roundRobin_First(strategies, i) ==
    IF Len(strategies) = 0 THEN None ELSE strategies[1]

\* selectedStrategies[i % selectedStrategies.length]
roundRobin(strategies, i) ==
    IF Len(strategies) = 0 THEN None
    ELSE strategies[(i % Len(strategies)) + 1]

---------------------------------------------------------------------------
(* Convergence Evaluator *)

Square(x) == RMul(x, x)

\* chain.steps.reduce((sum, step) => sum + step.confidence, 0), first j steps
RECURSIVE sumConfidence(_, _)
sumConfidence(steps, j) ==
    IF j = 0 THEN Num(0)
    ELSE RAdd(sumConfidence(steps, j - 1), steps[j].confidence)

\* confidences.reduce((sum, c) => sum + Math.pow(c - avg, 2), 0), first j steps
RECURSIVE sumSquaredDeviation(_, _, _)
sumSquaredDeviation(steps, avg, j) ==
    IF j = 0 THEN Num(0)
    ELSE RAdd(sumSquaredDeviation(steps, avg, j - 1),
              Square(RSub(steps[j].confidence, avg)))

\* chain.steps.reduce((sum, step) => sum + (step.evidence?.length || 0), 0)
RECURSIVE sumEvidence(_, _)
sumEvidence(steps, j) ==
    IF j = 0 THEN 0 ELSE sumEvidence(steps, j - 1) + steps[j].evidence

\* chain.cognitiveState?.coherenceLevel || 1.0
cognitiveCoherence(ch) ==
    IF ch.cognitiveState.present /\ ch.cognitiveState.coherenceLevel # Num(0)
    THEN ch.cognitiveState.coherenceLevel ELSE Num(1)

\* the alignment computed against the tracker's mean of the first step's
\* strategy instead of the chain's own mean
strategicAlignment_TrackerMean(steps) ==
    LET n == Len(steps)
        avgConfidence == performanceMetrics[steps[1].strategy].averageConfidence
        confidenceVariance ==
            RDivInt(sumSquaredDeviation(steps, avgConfidence, n), n)
    IN  RMax(Num(0), RSub(Num(1), confidenceVariance))

\* Math.max(0, 1.0 - confidenceVariance)
strategicAlignment(steps) ==
    LET n == Len(steps)
        avgConfidence == RDivInt(sumConfidence(steps, n), n)
        confidenceVariance ==
            RDivInt(sumSquaredDeviation(steps, avgConfidence, n), n)
    IN  RMax(Num(0), RSub(Num(1), confidenceVariance))

\* evidenceCount > 0 ? Math.min(1.0, evidenceCount / chain.steps.length) : 0
evidenceConsistency(steps) ==
    LET evidenceCount == sumEvidence(steps, Len(steps))
    IN  IF evidenceCount > 0
        THEN RMin(Num(1), Norm(evidenceCount, Len(steps)))
        ELSE Num(0)

\* chain.steps.length > 1 ? Math.max(0, (last - first) + 0.5) : 0.5
conclusionStability(steps) ==
    IF Len(steps) > 1
    THEN RMax(Num(0),
              RAdd(RSub(steps[Len(steps)].confidence, steps[1].confidence),
                   <<1, 2>>))
    ELSE <<1, 2>>

\* the four sub-scores weighted equally
overallConvergence_EqualWeights(coherence, alignment, evidence, stability) ==
    RDivInt(RAdd(RAdd(coherence, alignment), RAdd(evidence, stability)), 4)

\* coherence * 0.3 + alignment * 0.3 + evidence * 0.2 + stability * 0.2
overallConvergence(coherence, alignment, evidence, stability) ==
    RAdd(RAdd(RMul(coherence, <<3, 10>>), RMul(alignment, <<3, 10>>)),
         RAdd(RMul(evidence, <<2, 10>>), RMul(stability, <<2, 10>>)))

\* zero-step metrics that report the coherence of the chain's cognitive state
zeroStepMetrics_StateCoherence(ch) ==
    [cognitiveCoherence |-> ch.cognitiveState.coherenceLevel,
     strategicAlignment |-> Num(0), evidenceConsistency |-> Num(0),
     conclusionStability |-> Num(0), overallConvergence |-> Num(0)]

\* what calculateConvergenceMetrics returns when chain.steps.length === 0
zeroStepMetrics(ch) ==
    [cognitiveCoherence |-> Num(1), strategicAlignment |-> Num(0),
     evidenceConsistency |-> Num(0), conclusionStability |-> Num(0),
     overallConvergence |-> Num(0)]

\* calculateConvergenceMetrics(chain)
calculateConvergenceMetrics(ch) ==
    IF Len(ch.steps) = 0
    THEN zeroStepMetrics(ch)
    ELSE [cognitiveCoherence |-> cognitiveCoherence(ch),
          strategicAlignment |-> strategicAlignment(ch.steps),
          evidenceConsistency |-> evidenceConsistency(ch.steps),
          conclusionStability |-> conclusionStability(ch.steps),
          overallConvergence |->
              overallConvergence(cognitiveCoherence(ch),
                                 strategicAlignment(ch.steps),
                                 evidenceConsistency(ch.steps),
                                 conclusionStability(ch.steps))]

\* a reduce that keeps the latest of the steps of highest confidence
RECURSIVE bestStepOf_LatestOnTies(_, _, _)
bestStepOf_LatestOnTies(steps, k, best) ==
    IF k > Len(steps) THEN best
    ELSE bestStepOf_LatestOnTies(steps, k + 1,
                    IF RLeq(steps[best].confidence, steps[k].confidence)
                    THEN k ELSE best)

\* the index of the step chain.steps.reduce keeps in synthesizeFinalConclusion
RECURSIVE bestStepOf(_, _, _)
bestStepOf(steps, k, best) ==
    IF k > Len(steps) THEN best
    ELSE bestStepOf(steps, k + 1,
                    IF RLt(steps[best].confidence, steps[k].confidence)
                    THEN k ELSE best)

\* chain.steps.flatMap(step => step.premises.map(p => p.id)), first j steps
RECURSIVE allPremises(_, _)
allPremises(steps, j) ==
    IF j = 0 THEN <<>> ELSE allPremises(steps, j - 1) \o steps[j].premises

\* [...new Set(ids)]: the first occurrence of every id, in order
RECURSIVE uniqueOf(_, _)
uniqueOf(ids, j) ==
    IF j = 0 THEN <<>>
    ELSE LET before == uniqueOf(ids, j - 1)
         IN  IF \E k \in 1..(j - 1) : ids[k] = ids[j] THEN before
             ELSE Append(before, ids[j])

\* synthesizeFinalConclusion(chain); the statement is kept as the index of
\* the step it is taken from
synthesizeFinalConclusion(ch) ==
    IF Len(ch.steps) = 0
    THEN [present |-> TRUE, bestStep |-> 0, premises |-> <<>>,
          confidence |-> Num(0), convergenceMetrics |-> NoMetrics]
    ELSE [present |-> TRUE,
          bestStep |-> bestStepOf(ch.steps, 2, 1),
          premises |->
            LET ids == allPremises(ch.steps, Len(ch.steps))
            IN  uniqueOf(ids, Len(ids)),
          confidence |->
            RMin(Num(1),
                 RMul(RDivInt(sumConfidence(ch.steps, Len(ch.steps)),
                              Len(ch.steps)),
                      <<11, 10>>)),
          convergenceMetrics |-> calculateConvergenceMetrics(ch)]

---------------------------------------------------------------------------
(* Performance Tracker *)

\* a tracker that records only the steps reaching the success threshold
updatePerformanceMetrics_SuccessOnly(metrics, name, step) ==
    IF name \notin DOMAIN metrics \/ RLt(step.confidence, SuccessThreshold)
    THEN metrics
    ELSE [metrics EXCEPT ![name].totalExecutions = @ + 1]

\* updatePerformanceMetrics(strategyName, step)
updatePerformanceMetrics(metrics, name, step) ==
    IF name \notin DOMAIN metrics THEN metrics
    ELSE
    LET m == metrics[name]
        total == m.totalExecutions + 1
        currentSuccessRate ==
            IF RLeq(SuccessThreshold, step.confidence) THEN Num(1) ELSE Num(0)
    IN  [metrics EXCEPT ![name] =
            [totalExecutions |-> total,
             averageConfidence |->
                RDivInt(RAdd(RMul(m.averageConfidence, Num(total - 1)),
                             step.confidence), total),
             averageProcessingTime |->
                IF step.processingTimeMs # 0
                THEN RDivInt(RAdd(RMul(m.averageProcessingTime,
                                       Num(total - 1)),
                                  Num(step.processingTimeMs)), total)
                ELSE m.averageProcessingTime,
             successRate |->
                RDivInt(RAdd(RMul(m.successRate, Num(total - 1)),
                             currentSuccessRate), total)]]

---------------------------------------------------------------------------
(* ConstraintSatisfactionStrategy: the confidence of the step it returns *)

\* calculateSolutionMetrics: validation.satisfied / validation.total, which
\* is 0 / 0 for a problem without constraints
consistencyScore(satisfied, total) ==
    IF total = 0 THEN NoNum ELSE Norm(satisfied, total)

\* ConstraintSatisfactionStrategy.calculateCognitiveEnhancement
calculateCognitiveEnhancement(cognitiveState, score) ==
    RMin(<<2, 10>>,
         RAdd(RMul(cognitiveState.coherenceLevel, <<12, 100>>),
              RMul(score, <<8, 100>>)))

\* executeStep: Math.min(1.0, consistencyScore * (1 + cognitiveEnhancement))
stepConfidence(cognitiveState, satisfied, total) ==
    LET score == consistencyScore(satisfied, total)
        cognitiveEnhancement ==
            IF cognitiveState.present
            THEN calculateCognitiveEnhancement(cognitiveState, score)
            ELSE Num(0)
    IN  RMin(Num(1), RMul(score, RAdd(Num(1), cognitiveEnhancement)))

---------------------------------------------------------------------------
(* Tool layer: cognitive superposition states and conceptual links *)

\* Math.sqrt(q): a magnitude is kept as the number it is the root of
Sqrt(q) == [squared |-> q]

\* m * m for a magnitude m
Squared(m) == m.squared

\* undefined, for a state id
NoId == -1

NoState ==
    [id |-> NoId, concepts |-> <<>>, hypothesisWeights |-> <<>>,
     coherence |-> Num(1), createdAt |-> NoId, resolutionCount |-> 0]

NoResolution ==
    [stateId |-> NoId, resolvedConcept |-> None, confidence |-> Num(0),
     postResolutionCoherence |-> Num(0)]

\* a check of the concept list that lets the empty list through
rejectsConcepts_Never(concepts) == FALSE

\* _createCognitiveSuperposition: concepts.length === 0 throws
rejectsConcepts(concepts) == Len(concepts) = 0

\* a superposition whose weights have magnitude 1
_createCognitiveSuperposition_UnitWeights(concepts, now) ==
    [id |-> now, concepts |-> concepts,
     hypothesisWeights |->
        [k \in 1..Len(concepts) |->
            [confidence |-> Sqrt(Num(1)), potential |-> Sqrt(Num(1))]],
     coherence |-> Num(1), createdAt |-> now, resolutionCount |-> 0]

\* _createCognitiveSuperposition(concepts) with Date.now() = now: the state
\* it builds; the id `cogstate_${now}` is kept as now
_createCognitiveSuperposition(concepts, now) ==
    LET weightMagnitude == Sqrt(<<1, Len(concepts)>>)
    IN  [id |-> now, concepts |-> concepts,
         hypothesisWeights |->
            [k \in 1..Len(concepts) |->
                [confidence |-> weightMagnitude,
                 potential |-> weightMagnitude]],
         coherence |-> Num(1), createdAt |-> now, resolutionCount |-> 0]

\* a lookup that answers an unknown id with a state of its own
lookupState_OrDefault(states, id) ==
    IF id \in DOMAIN states THEN states[id]
    ELSE _createCognitiveSuperposition(<<"A">>, id)

\* this.cognitiveStates.get(stateId); NoState is undefined
lookupState(states, id) ==
    IF id \in DOMAIN states THEN states[id] ELSE NoState

\* Math.max(...probabilities), over the first j of them
RECURSIVE maxOf(_, _)
maxOf(probabilities, j) ==
    IF j = 1 THEN probabilities[1]
    ELSE RMax(maxOf(probabilities, j - 1), probabilities[j])

\* the last index holding x, 0-based
indexOf_Last(probabilities, x) ==
    (CHOOSE k \in 1..Len(probabilities) :
        /\ probabilities[k] = x
        /\ \A j \in (k + 1)..Len(probabilities) : probabilities[j] # x) - 1

\* probabilities.indexOf(x), 0-based
indexOf(probabilities, x) ==
    (CHOOSE k \in 1..Len(probabilities) :
        /\ probabilities[k] = x
        /\ \A j \in 1..(k - 1) : probabilities[j] # x) - 1

\* probabilities.findIndex(p => (cumulative += p) >= random), 0-based
RECURSIVE findIndex(_, _, _, _)
findIndex(probabilities, random, k, cumulative) ==
    IF k > Len(probabilities) THEN -1
    ELSE LET c == RAdd(cumulative, probabilities[k])
         IN  IF RLeq(random, c) THEN k - 1
             ELSE findIndex(probabilities, random, k + 1, c)

\* state.hypothesisWeights.map(w => w.confidence * w.confidence)
resolveProbabilities(state) ==
    [k \in 1..Len(state.hypothesisWeights) |->
        Squared(state.hypothesisWeights[k].confidence)]

\* _resolveCognitiveState: selectedIndex for a method and Math.random() = u
selectedIndex(state, method, u) ==
    LET probabilities == resolveProbabilities(state)
    IN  IF method = "highest_confidence"
        THEN indexOf(probabilities, maxOf(probabilities, Len(probabilities)))
        ELSE LET total == RSum(probabilities)
                 found == findIndex(probabilities, RMul(u, total), 1, Num(0))
             IN  IF found = -1 THEN Len(probabilities) - 1 ELSE found

\* _resolveCognitiveState: the state after the resolution
resolved(state) ==
    [state EXCEPT !.resolutionCount = @ + 1,
                  !.coherence = RMul(@, ResolveDecay)]

\* _resolveCognitiveState: the CognitiveResolutionResult it returns
resolutionOf(state, method, u) ==
    LET index == selectedIndex(state, method, u)
    IN  [stateId |-> state.id,
         resolvedConcept |-> state.concepts[index + 1],
         confidence |-> resolveProbabilities(state)[index + 1],
         postResolutionCoherence |-> resolved(state).coherence]

\* a link recorded for the first concept only
_establishConceptualLinkage_OneWay(links, conceptA, conceptB) ==
    LET hasA == IF conceptA \in DOMAIN links THEN links
                ELSE (conceptA :> {}) @@ links
        hasB == IF conceptB \in DOMAIN hasA THEN hasA
                ELSE (conceptB :> {}) @@ hasA
    IN  [hasB EXCEPT ![conceptA] = @ \cup {conceptB}]

\* _establishConceptualLinkage(conceptA, conceptB): the map after the call
_establishConceptualLinkage(links, conceptA, conceptB) ==
    LET hasA == IF conceptA \in DOMAIN links THEN links
                ELSE (conceptA :> {}) @@ links
        hasB == IF conceptB \in DOMAIN hasA THEN hasA
                ELSE (conceptB :> {}) @@ hasA
        addB == [hasB EXCEPT ![conceptA] = @ \cup {conceptB}]
    IN  [addB EXCEPT ![conceptB] = @ \cup {conceptA}]

\* the arguments of a tool call: whether validateThoughtData accepts them
\* and the optional parameters processThought looks at
NoArgs ==
    [valid |-> TRUE,
     cognitive_superposition_concepts |-> NoList,
     cognitive_resolve_state_id |-> NoId,
     cognitive_resolution_method |-> None,
     cognitive_link_concepts |-> NoList,
     strategy |-> None,
     unified_reasoning_chain |-> FALSE,
     strategies |-> NoList,
     cognitive_enhancement |-> TRUE,
     convergence_target |-> NoNum]

NoResponse ==
    [args |-> NoArgs, random |-> Num(0), isError |-> FALSE, status |-> None,
     error |-> None, state |-> NoState, resolution |-> NoResolution,
     tool |-> None, tools |-> <<>>]

\* the response of the try block of processThought
processed(args, u, status) ==
    [NoResponse EXCEPT !.args = args, !.random = u, !.status = status]

\* the response of the catch block of processThought
failed(args, u, message) ==
    [NoResponse EXCEPT !.args = args, !.random = u, !.isError = TRUE,
                       !.status = "failed", !.error = message]

---------------------------------------------------------------------------
(* executeReasoningChain *)

Init ==
    /\ configArg \in ConfigArgs
    /\ config = Constructor(configArg)
    /\ performanceMetrics = initializeStrategies
    /\ pc = [c \in Chains |-> "idle"]
    /\ params = [c \in Chains |-> CHOOSE p \in Params : TRUE]
    /\ chain = [c \in Chains |-> initializeReasoningChain]
    /\ selectedStrategies = [c \in Chains |-> <<>>]
    /\ loopI = [c \in Chains |-> 0]
    /\ strategyName = [c \in Chains |-> None]
    /\ stepsExecuted = [c \in Chains |-> 0]
    /\ convergenceAchieved = [c \in Chains |-> FALSE]
    /\ result = [c \in Chains |-> NoResult]
    /\ selections = [c \in Chains |-> 0]
    /\ dispatched = [c \in Chains |-> 0]
    /\ clock = 0
    /\ thoughtHistory = 0
    /\ cognitiveStates = [id \in {} |-> NoState]
    /\ conceptualLinks = [concept \in {} |-> {}]
    /\ response = NoResponse

\* executeReasoningChain up to the first iteration of the loop:
\* _initializeReasoningChain (goal.slice throws on a goal that is not a
\* string) and the prologue of _executeReasoningSteps
Start(c, p) ==
    /\ pc[c] = "idle"
    /\ params' = [params EXCEPT ![c] = p]
    /\ IF ~p.goal.string
       THEN /\ pc' = [pc EXCEPT ![c] = "rejected"]
            /\ UNCHANGED <<chain, selectedStrategies>>
       ELSE /\ pc' = [pc EXCEPT ![c] = "loop"]
            /\ chain' = [chain EXCEPT ![c] =
                  [initializeReasoningChain EXCEPT !.cognitiveState =
                      IF p.cognitiveEnhancement
                      THEN createCognitiveSuperposition(p.goal, p.strategies)
                      ELSE NoCognitiveState]]
            /\ selectedStrategies' = [selectedStrategies EXCEPT ![c] =
                  IF p.strategies # NoList THEN p.strategies
                  ELSE selectOptimalStrategies(p.goal, p.domain)]
    /\ UNCHANGED <<configArg, config, performanceMetrics, loopI, strategyName,
                   stepsExecuted, convergenceAchieved, result, selections,
                   dispatched>>

\* a loop condition that does not look at convergenceAchieved
loopContinues_IgnoresConvergence(c) ==
    loopI[c] < maxStepsPerChain(config)

\* the loop condition of _executeReasoningSteps
loopContinues(c) ==
    loopI[c] < maxStepsPerChain(config) /\ ~convergenceAchieved[c]

\* one iteration up to the call of the strategy: select a name, look the
\* strategy up, `continue` when there is none
Select(c, u) ==
    /\ pc[c] = "loop"
    /\ loopContinues(c)
    /\ LET cs == chain[c].cognitiveState
           name == IF cs.present
                   THEN cognitiveSelectStrategy(cs, selectedStrategies[c],
                                                performanceMetrics, u)
                   ELSE roundRobin(selectedStrategies[c], loopI[c])
       IN  /\ chain' = [chain EXCEPT ![c].cognitiveState =
                           IF cs.present THEN measured(cs) ELSE cs]
           /\ selections' = [selections EXCEPT ![c] = @ + 1]
           /\ strategyName' = [strategyName EXCEPT ![c] = name]
           /\ IF name \in RegisteredStrategies
              THEN /\ pc' = [pc EXCEPT ![c] = "exec"]
                   /\ dispatched' = [dispatched EXCEPT ![c] = @ + 1]
                   /\ UNCHANGED loopI
              ELSE /\ loopI' = [loopI EXCEPT ![c] = @ + 1]
                   /\ UNCHANGED <<pc, dispatched>>
    /\ UNCHANGED <<configArg, config, performanceMetrics, params,
                   selectedStrategies, stepsExecuted, convergenceAchieved,
                   result>>

\* a push that keeps the new step alone
push_Replacing(steps, step) == <<step>>

\* chain.steps.push(step)
push(steps, step) == Append(steps, step)

\* strategy.executeStep returns a step: the rest of the iteration
StepReturns(c, confidence, evidence) ==
    /\ pc[c] = "exec"
    /\ LET step == [strategy |-> strategyName[c], confidence |-> confidence,
                    evidence |-> evidence,
                    premises |-> PremisesOf(evidence),
                    processingTimeMs |-> ProcessingTimeOf(evidence)]
           pushed == [chain[c] EXCEPT !.steps = push(@, step)]
           convergenceMetrics == calculateConvergenceMetrics(pushed)
           achieved ==
               RLeq(effectiveTarget(config, params[c].convergenceTarget),
                    convergenceMetrics.overallConvergence)
       IN  /\ chain' = [chain EXCEPT ![c] =
                  [pushed EXCEPT !.convergenceScore =
                      convergenceMetrics.overallConvergence]]
           /\ stepsExecuted' = [stepsExecuted EXCEPT ![c] = @ + 1]
           /\ performanceMetrics' =
                  updatePerformanceMetrics(performanceMetrics,
                                           strategyName[c], step)
           /\ convergenceAchieved' =
                  [convergenceAchieved EXCEPT ![c] = achieved]
           /\ loopI' = [loopI EXCEPT ![c] = IF achieved THEN @ ELSE @ + 1]
    /\ pc' = [pc EXCEPT ![c] = "loop"]
    /\ UNCHANGED <<configArg, config, params, selectedStrategies,
                   strategyName, result, selections, dispatched>>

\* strategy.executeStep throws: nothing in _executeReasoningSteps or
\* executeReasoningChain catches, the invocation rejects
StepThrows(c) ==
    /\ pc[c] = "exec"
    /\ pc' = [pc EXCEPT ![c] = "rejected"]
    /\ UNCHANGED <<configArg, config, performanceMetrics, params, chain,
                   selectedStrategies, loopI, strategyName, stepsExecuted,
                   convergenceAchieved, result, selections, dispatched>>

\* the loop is left: _finalizeReasoningChain and the return
Finalize(c) ==
    /\ pc[c] = "loop"
    /\ ~loopContinues(c)
    /\ chain' = [chain EXCEPT ![c].finalConclusion =
                    synthesizeFinalConclusion(chain[c])]
    /\ result' = [result EXCEPT ![c] =
          [convergenceMetrics |-> calculateConvergenceMetrics(chain[c]),
           stepsExecuted |-> stepsExecuted[c],
           convergenceAchieved |-> convergenceAchieved[c]]]
    /\ pc' = [pc EXCEPT ![c] = "returned"]
    /\ UNCHANGED <<configArg, config, performanceMetrics, params,
                   selectedStrategies, loopI, strategyName, stepsExecuted,
                   convergenceAchieved, selections, dispatched>>

RandomValues == {<<k, RandomGrid>> : k \in 0..(RandomGrid - 1)}

\* one invocation, every input
StartChain == (\E p \in Params : Start(1, p)) /\ UNCHANGED mcpVars
SelectStrategy ==
    (\E u \in RandomValues : Select(1, u)) /\ UNCHANGED mcpVars
ExecuteStep ==
    /\ \E confidence \in ConfidenceValues, evidence \in EvidenceCounts :
          StepReturns(1, confidence, evidence)
    /\ UNCHANGED mcpVars
StrategyFails == StepThrows(1) /\ UNCHANGED mcpVars
FinalizeChain == Finalize(1) /\ UNCHANGED mcpVars

Next ==
    \/ StartChain
    \/ SelectStrategy
    \/ ExecuteStep
    \/ StrategyFails
    \/ FinalizeChain

Spec == Init /\ [][Next]_vars

---------------------------------------------------------------------------
(* Two invocations interleaved at their suspension points *)

ConcParams ==
    { [goal |-> [string |-> TRUE, concepts |-> 2, cause |-> TRUE,
                 temporal |-> FALSE, financial |-> FALSE],
       domain |-> "general", strategies |-> <<"Causal">>,
       cognitiveEnhancement |-> FALSE, convergenceTarget |-> NoNum],
      [goal |-> [string |-> TRUE, concepts |-> 2, cause |-> TRUE,
                 temporal |-> FALSE, financial |-> FALSE],
       domain |-> "general", strategies |-> <<"Causal", "Bayesian">>,
       cognitiveEnhancement |-> TRUE, convergenceTarget |-> <<85, 100>>],
      [goal |-> [string |-> TRUE, concepts |-> 0, cause |-> FALSE,
                 temporal |-> FALSE, financial |-> FALSE],
       domain |-> "general", strategies |-> <<"OnlineSearch", "Causal">>,
       cognitiveEnhancement |-> FALSE, convergenceTarget |-> Num(0)] }

ConcConfidenceValues == { Num(0), <<7, 10>>, Num(1) }
ConcEvidenceCounts == {2}

ConcStart ==
    (\E c \in Chains, p \in ConcParams : Start(c, p)) /\ UNCHANGED mcpVars
ConcSelect ==
    (\E c \in Chains, u \in RandomValues : Select(c, u))
    /\ UNCHANGED mcpVars
ConcExecuteStep ==
    /\ \E c \in Chains, confidence \in ConcConfidenceValues,
          evidence \in ConcEvidenceCounts :
          StepReturns(c, confidence, evidence)
    /\ UNCHANGED mcpVars
ConcStrategyFails == (\E c \in Chains : StepThrows(c)) /\ UNCHANGED mcpVars
ConcFinalize == (\E c \in Chains : Finalize(c)) /\ UNCHANGED mcpVars

ConcNext ==
    \/ ConcStart
    \/ ConcSelect
    \/ ConcExecuteStep
    \/ ConcStrategyFails
    \/ ConcFinalize

ConcSpec == Init /\ [][ConcNext]_vars

---------------------------------------------------------------------------
(* One invocation whose steps are executed by ConstraintSatisfactionStrategy *)

\* the problem is taken from the goal or from context.variables and
\* context.constraints; the chain has no cognitive state
CspParams ==
    [goal : Goals, domain : Domains,
     strategies : {<<"ConstraintSatisfaction">>},
     cognitiveEnhancement : {FALSE}, convergenceTarget : Targets]

CspStart == (\E p \in CspParams : Start(1, p)) /\ UNCHANGED mcpVars

CspSelect == Select(1, Num(0)) /\ UNCHANGED mcpVars

\* the solver found a solution that satisfies `satisfied` of the `total`
\* constraints; the step has one evidence
CspExecuteStep ==
    /\ strategyName[1] = "ConstraintSatisfaction"
    /\ \E total \in 0..MaxConstraints : \E satisfied \in 0..total :
          StepReturns(1, stepConfidence(chain[1].cognitiveState,
                                        satisfied, total), 1)
    /\ UNCHANGED mcpVars

\* no solution, or a domain wiped out by the propagation
CspStrategyFails == StepThrows(1) /\ UNCHANGED mcpVars

CspFinalize == Finalize(1) /\ UNCHANGED mcpVars

CspNext ==
    \/ CspStart
    \/ CspSelect
    \/ CspExecuteStep
    \/ CspStrategyFails
    \/ CspFinalize

CspSpec == Init /\ [][CspNext]_vars

---------------------------------------------------------------------------
(* ConstraintSatisfactionStrategy: propagation and backtracking *)

\* the names of the variables of a problem, in the order of the object keys
CspVariableNames == <<"x", "y">>

\* the values 1..n of a set, in ascending order
RECURSIVE ascending(_, _)
ascending(S, n) ==
    IF n = 0 THEN <<>>
    ELSE ascending(S, n - 1) \o (IF n \in S THEN <<n>> ELSE <<>>)

\* the domain of a variable: a list of values
CspDomains == { ascending(S, MaxValue) : S \in SUBSET (1..MaxValue) }

\* context.context.variables: the domains of the first n names
CspVariables ==
    UNION { [1..n -> CspDomains] : n \in 0..Len(CspVariableNames) }

\* the constraint functions of a problem: the two kinds
\* generateDefaultConstraints builds, which hold while a variable is
\* missing, and three a caller writes without that guard
CspConstraintKinds == {"different", "ordered", "less", "isOne", "never"}

\* context.context.constraints
CspConstraints ==
    UNION { [1..n -> CspConstraintKinds] : n \in 0..MaxConstraints }

\* constraint(assignment): a missing variable reads as undefined, and a
\* comparison with undefined is false
holds(constraint, assignment) ==
    LET has(v) == v \in DOMAIN assignment
    IN  CASE constraint = "different" ->
                ~(has("x") /\ has("y")) \/ assignment["x"] # assignment["y"]
          [] constraint = "ordered" ->
                (has("x") /\ has("y")) => assignment["x"] < assignment["y"]
          [] constraint = "less" ->
                has("x") /\ has("y") /\ assignment["x"] < assignment["y"]
          [] constraint = "isOne" -> has("x") /\ assignment["x"] = 1
          [] OTHER -> FALSE

\* isConsistentAssignment(assignment, constraints)
isConsistentAssignment(assignment, constraints) ==
    \A k \in 1..Len(constraints) : holds(constraints[k], assignment)

\* applyConstraintPropagation: every domain keeps the values that pass the
\* constraints alone; an empty domain throws
applyConstraintPropagation(variables, constraints) ==
    LET propagated ==
            [k \in 1..Len(variables) |->
                SelectSeq(variables[k],
                          LAMBDA value :
                              isConsistentAssignment(
                                  CspVariableNames[k] :> value, constraints))]
    IN  [wipeout |-> \E k \in 1..Len(variables) : propagated[k] = <<>>,
         variables |-> propagated]

\* varKeys.sort by domain size, stable: the first n keys
RECURSIVE sortedKeys(_, _)
sortedKeys(variables, n) ==
    IF n = 0 THEN <<>>
    ELSE LET keys == sortedKeys(variables, n - 1)
             before == Cardinality({ j \in 1..Len(keys) :
                          Len(variables[keys[j]]) <= Len(variables[n]) })
         IN  SubSeq(keys, 1, before) \o <<n>>
                \o SubSeq(keys, before + 1, Len(keys))

\* null
NoSolution == [found |-> FALSE, assignment |-> <<>>]

\* backtrack(index) of enhancedBacktrackingSolve and its loop over the
\* values of the domain, from the k-th on
RECURSIVE backtrack(_, _, _, _, _)
RECURSIVE tryValues(_, _, _, _, _, _)
backtrack(variables, constraints, varKeys, index, assignment) ==
    IF index = Len(varKeys)
    THEN [found |-> TRUE, assignment |-> assignment]
    ELSE tryValues(variables, constraints, varKeys, index, assignment, 1)

tryValues(variables, constraints, varKeys, index, assignment, k) ==
    LET variable == varKeys[index + 1]
        domain == variables[variable]
    IN  IF k > Len(domain) THEN NoSolution
        ELSE LET assigned ==
                     (CspVariableNames[variable] :> domain[k]) @@ assignment
                 found ==
                     IF isConsistentAssignment(assigned, constraints)
                     THEN backtrack(variables, constraints, varKeys,
                                    index + 1, assigned)
                     ELSE NoSolution
             IN  IF found.found THEN found
                 ELSE tryValues(variables, constraints, varKeys, index,
                                assignment, k + 1)

\* enhancedBacktrackingSolve(variables, constraints)
enhancedBacktrackingSolve(variables, constraints) ==
    backtrack(variables, constraints,
              sortedKeys(variables, Len(variables)), 0, <<>>)

\* executeStep is called with a problem in context.context
SolverCalled ==
    /\ pc[1] = "idle"
    /\ \E variables \in CspVariables, constraints \in CspConstraints :
          params' = [params EXCEPT ![1] =
                        [context |-> [variables |-> variables,
                                      constraints |-> constraints]]]
    /\ pc' = [pc EXCEPT ![1] = "called"]
    /\ UNCHANGED <<configArg, config, performanceMetrics, chain,
                   selectedStrategies, loopI, strategyName, stepsExecuted,
                   convergenceAchieved, result, selections, dispatched>>
    /\ UNCHANGED mcpVars

\* executeStep, phases 2 and 3: the propagation, then the solver on the
\* propagated domains; a wiped out domain and a null solution throw
SolverReturns ==
    /\ pc[1] = "called"
    /\ LET context == params[1].context
           propagated ==
               applyConstraintPropagation(context.variables,
                                          context.constraints)
           solution ==
               IF propagated.wipeout THEN NoSolution
               ELSE enhancedBacktrackingSolve(propagated.variables,
                                              context.constraints)
       IN  /\ result' = [result EXCEPT ![1] =
                            [propagatedVariables |-> propagated,
                             solution |-> solution]]
           /\ pc' = [pc EXCEPT ![1] =
                        IF solution.found THEN "returned" ELSE "rejected"]
    /\ UNCHANGED <<configArg, config, performanceMetrics, params, chain,
                   selectedStrategies, loopI, strategyName, stepsExecuted,
                   convergenceAchieved, selections, dispatched>>
    /\ UNCHANGED mcpVars

SolverNext ==
    \/ SolverCalled
    \/ SolverReturns

---------------------------------------------------------------------------
(* resolveSequentially *)

\* the sequence resolveSequentially runs
logicalSequence ==
    <<"PatternAnalysis", "HypothesisGeneration", "Inductive", "Abductive",
      "Analogical", "CaseBased",
      "Deductive", "Defeasible", "ForwardChaining", "BackwardChaining",
      "ConstraintSatisfaction", "FuzzyLogic",
      "Causal", "Counterfactual", "Empirical", "Bayesian",
      "Financial", "Ethical",
      "Sequential",
      "MetacognitiveControl">>

\* an early exit at the confidence of the metacognitive exit
EarlyExitConfidence_Low == <<95, 100>>

\* lastConclusion.confidence >= 0.99 leaves the loop
EarlyExitConfidence == <<99, 100>>

\* after MetacognitiveControl, lastConclusion.confidence >= 0.95 leaves it
MetacognitiveExitConfidence == <<95, 100>>

\* the steps a strategy returns to resolveSequentially: the confidence of
\* the step and that of its conclusion
SequenceOutcomes ==
    { [confidence |-> Num(1), conclusion |-> <<7, 10>>],
      [confidence |-> <<7, 10>>, conclusion |-> <<96, 100>>],
      [confidence |-> <<7, 10>>, conclusion |-> <<99, 100>>] }

\* the two tests that follow chain.steps.push(step), lastConclusion being
\* the conclusion of the step
breaks(name, conclusion) ==
    \/ /\ name = "MetacognitiveControl"
       /\ "MetacognitiveControl" \in RegisteredStrategies
       /\ RLeq(MetacognitiveExitConfidence, conclusion)
    \/ RLeq(EarlyExitConfidence, conclusion)

\* the end of an iteration: after a break or the last name of the sequence
\* the conclusion is synthesized and returned, otherwise the loop goes on
iterationEnds(ch, broke) ==
    /\ loopI' = [loopI EXCEPT ![1] = @ + 1]
    /\ IF broke \/ loopI[1] + 1 = Len(logicalSequence)
       THEN /\ pc' = [pc EXCEPT ![1] = "returned"]
            /\ result' = [result EXCEPT ![1] = synthesizeFinalConclusion(ch)]
       ELSE /\ pc' = [pc EXCEPT ![1] = "sequence"]
            /\ UNCHANGED result

\* resolveSequentially(goal, context) up to the first iteration
SequenceStarts ==
    /\ pc[1] = "idle"
    /\ pc' = [pc EXCEPT ![1] = "sequence"]
    /\ chain' = [chain EXCEPT ![1] = initializeReasoningChain]
    /\ UNCHANGED <<configArg, config, performanceMetrics, params,
                   selectedStrategies, loopI, strategyName, stepsExecuted,
                   convergenceAchieved, result, selections, dispatched>>
    /\ UNCHANGED mcpVars

\* one iteration up to the call of the strategy; a name with no strategy
\* is passed over
SequenceSelects ==
    /\ pc[1] = "sequence"
    /\ LET name == logicalSequence[loopI[1] + 1]
       IN  /\ strategyName' = [strategyName EXCEPT ![1] = name]
           /\ IF name \in RegisteredStrategies
              THEN /\ pc' = [pc EXCEPT ![1] = "called"]
                   /\ UNCHANGED <<loopI, result>>
              ELSE iterationEnds(chain[1], FALSE)
    /\ UNCHANGED <<configArg, config, performanceMetrics, params, chain,
                   selectedStrategies, stepsExecuted, convergenceAchieved,
                   selections, dispatched>>
    /\ UNCHANGED mcpVars

\* strategy.executeStep returns a step: it is pushed and the exits are
\* tested
SequenceStepReturns ==
    /\ pc[1] = "called"
    /\ Len(chain[1].steps) < MaxSequenceSteps
    /\ \E outcome \in SequenceOutcomes :
          LET step == [strategy |-> strategyName[1],
                       confidence |-> outcome.confidence,
                       conclusion |-> outcome.conclusion,
                       evidence |-> 2,
                       premises |-> PremisesOf(2),
                       processingTimeMs |-> ProcessingTimeOf(2)]
              pushed == [chain[1] EXCEPT !.steps = push(@, step)]
          IN  /\ chain' = [chain EXCEPT ![1] = pushed]
              /\ iterationEnds(pushed,
                               breaks(strategyName[1], outcome.conclusion))
    /\ UNCHANGED <<configArg, config, performanceMetrics, params,
                   selectedStrategies, strategyName, stepsExecuted,
                   convergenceAchieved, selections, dispatched>>
    /\ UNCHANGED mcpVars

\* strategy.executeStep throws: the catch block logs and the loop goes on
SequenceStepThrows ==
    /\ pc[1] = "called"
    /\ iterationEnds(chain[1], FALSE)
    /\ UNCHANGED <<configArg, config, performanceMetrics, params, chain,
                   selectedStrategies, strategyName, stepsExecuted,
                   convergenceAchieved, selections, dispatched>>
    /\ UNCHANGED mcpVars

SequenceNext ==
    \/ SequenceStarts
    \/ SequenceSelects
    \/ SequenceStepReturns
    \/ SequenceStepThrows

\* resolveSequentially reads nothing of the configuration: one orchestrator
\* stands for all
SequenceInit ==
    /\ Init
    /\ configArg = [convergenceTarget |-> NoNum, maxStepsPerChain |-> 1]

SequenceSpec == SequenceInit /\ [][SequenceNext]_vars

SolverSpec == SequenceInit /\ [][SolverNext]_vars

---------------------------------------------------------------------------
(* MetacognitionMCP.processThought: the tool calls of one server *)

ConceptLists == { <<>>, <<"A", "B">>, <<"B", "A", "C">> }

ResolutionMethods == { "highest_confidence", "weighted_random" }

LinkConcepts == { "A", "B" }

CreateArgs ==
    { [NoArgs EXCEPT !.cognitive_superposition_concepts = concepts] :
        concepts \in ConceptLists }

ResolveArgs ==
    { [NoArgs EXCEPT !.cognitive_resolve_state_id = id,
                     !.cognitive_resolution_method = method] :
        id \in 0..MaxClock, method \in ResolutionMethods }

LinkArgs ==
    { [NoArgs EXCEPT !.cognitive_link_concepts = <<conceptA, conceptB>>] :
        conceptA \in LinkConcepts, conceptB \in LinkConcepts }

InvalidArgs ==
    { [NoArgs EXCEPT !.valid = FALSE,
                     !.cognitive_superposition_concepts = <<"A", "B">>] }

ChainArgs ==
    { [NoArgs EXCEPT !.unified_reasoning_chain = TRUE,
                     !.strategies = <<"OnlineSearch", "Causal">>] }

\* the confidence of the steps of a unified reasoning chain call
ChainConfidenceValues == { <<7, 10>> }

\* the thought of a unified reasoning chain call, as a goal
ThoughtGoal ==
    [string |-> TRUE, concepts |-> 2, cause |-> FALSE, temporal |-> FALSE,
     financial |-> FALSE]

\* calls that carry several of the operation parameters
SeveralArgs ==
    { [NoArgs EXCEPT !.cognitive_superposition_concepts = <<"A", "B">>,
                     !.cognitive_resolve_state_id = 0,
                     !.cognitive_link_concepts = <<"A", "B">>,
                     !.strategy = "Causal",
                     !.unified_reasoning_chain = TRUE],
      [NoArgs EXCEPT !.cognitive_superposition_concepts = <<>>,
                     !.cognitive_link_concepts = <<"A", "B">>],
      [NoArgs EXCEPT !.cognitive_resolve_state_id = 0,
                     !.cognitive_link_concepts = <<"A", "B">>,
                     !.unified_reasoning_chain = TRUE],
      [NoArgs EXCEPT !.cognitive_link_concepts = <<"A", "B">>,
                     !.strategy = "Causal",
                     !.unified_reasoning_chain = TRUE] }

\* calls that select one strategy, alone or with unified_reasoning_chain
StrategyArgs ==
    { [NoArgs EXCEPT !.strategy = "Causal"],
      [NoArgs EXCEPT !.strategy = "BackwardChaining"],
      [NoArgs EXCEPT !.strategy = "OnlineSearch",
                     !.unified_reasoning_chain = TRUE] }

\* names the constructor of MetacognitionMCP registers
ToolStrategies == StrategyNames \ {"BackwardChaining"}

\* a dispatch that looks at the link parameter first
operationOf_LinkFirst(args) ==
    IF args.cognitive_link_concepts # NoList THEN "ConceptualLinkage"
    ELSE IF args.cognitive_superposition_concepts # NoList
    THEN "CognitiveSuperposition"
    ELSE IF args.cognitive_resolve_state_id # NoId THEN "CognitiveResolution"
    ELSE IF args.strategy # None THEN "SingleStrategy"
    ELSE IF args.unified_reasoning_chain THEN "UnifiedReasoningChain"
    ELSE "none"

\* the branch of processThought a call takes
operationOf(args) ==
    IF args.cognitive_superposition_concepts # NoList
    THEN "CognitiveSuperposition"
    ELSE IF args.cognitive_resolve_state_id # NoId THEN "CognitiveResolution"
    ELSE IF args.cognitive_link_concepts # NoList THEN "ConceptualLinkage"
    ELSE IF args.strategy # None THEN "SingleStrategy"
    ELSE IF args.unified_reasoning_chain THEN "UnifiedReasoningChain"
    ELSE "none"

\* processThought(input) for the operations that complete without
\* suspending, with Date.now() = now and Math.random() = u; the time that
\* passes is observed by the call that stores a reading (a state id)
processThought(args, now, u) ==
    /\ now \in clock..MaxClock
    /\ operationOf(args) \notin {"SingleStrategy", "UnifiedReasoningChain"}
    /\ clock' = now
    /\ IF ~args.valid
       THEN /\ response' = failed(args, u, "invalid thought")
            /\ UNCHANGED <<thoughtHistory, cognitiveStates, conceptualLinks>>
       ELSE
       /\ thoughtHistory < MaxThoughts
       /\ thoughtHistory' = thoughtHistory + 1
       /\ CASE operationOf(args) = "CognitiveSuperposition" ->
                LET concepts == args.cognitive_superposition_concepts
                    state == _createCognitiveSuperposition(concepts, now)
                IN  IF rejectsConcepts(concepts)
                    THEN /\ response' =
                                failed(args, u, "empty set of concepts")
                         /\ UNCHANGED <<cognitiveStates, conceptualLinks>>
                    ELSE /\ cognitiveStates' =
                                (state.id :> state) @@ cognitiveStates
                         /\ response' =
                                [processed(args, u,
                                    "Created cognitive superposition state.")
                                 EXCEPT !.state = state]
                         /\ UNCHANGED conceptualLinks
            [] operationOf(args) = "CognitiveResolution" ->
                LET stateId == args.cognitive_resolve_state_id
                    method ==
                        IF args.cognitive_resolution_method = None
                        THEN "highest_confidence"
                        ELSE args.cognitive_resolution_method
                    state == lookupState(cognitiveStates, stateId)
                IN  IF state = NoState
                    THEN /\ response' = failed(args, u, "not found")
                         /\ UNCHANGED <<cognitiveStates, conceptualLinks>>
                    ELSE /\ cognitiveStates' =
                                [cognitiveStates EXCEPT
                                    ![state.id] = resolved(state)]
                         /\ response' =
                                [processed(args, u, "Resolved cognitive state.")
                                 EXCEPT !.resolution =
                                            resolutionOf(state, method, u)]
                         /\ UNCHANGED conceptualLinks
            [] operationOf(args) = "ConceptualLinkage" ->
                /\ conceptualLinks' =
                      _establishConceptualLinkage(
                          conceptualLinks, args.cognitive_link_concepts[1],
                          args.cognitive_link_concepts[2])
                /\ response' = processed(args, u, "Linked concepts")
                /\ UNCHANGED cognitiveStates
            [] OTHER ->
                /\ response' =
                      processed(args, u, "Processed thought successfully.")
                /\ UNCHANGED <<cognitiveStates, conceptualLinks>>

\* processThought(input) with `strategy`: the strategy runs on a chain of
\* the call's own and returns a step or throws; a name the tool has not
\* registered throws before that
processThoughtStrategy(args, throws) ==
    /\ args.valid
    /\ operationOf(args) = "SingleStrategy"
    /\ thoughtHistory < MaxThoughts
    /\ thoughtHistory' = thoughtHistory + 1
    /\ response' =
          IF args.strategy \notin ToolStrategies
          THEN failed(args, Num(0), "not implemented or recognized")
          ELSE IF throws THEN failed(args, Num(0), "strategy error")
          ELSE processed(args, Num(0), "Successfully executed reasoning.")
    /\ UNCHANGED <<clock, cognitiveStates, conceptualLinks>>

\* processThought(input) with unified_reasoning_chain, up to the first
\* suspension inside executeReasoningChain
processThoughtChain(args, now) ==
    /\ now \in clock..MaxClock
    /\ args.valid
    /\ operationOf(args) = "UnifiedReasoningChain"
    /\ thoughtHistory < MaxThoughts
    /\ clock' = now
    /\ thoughtHistory' = thoughtHistory + 1
    /\ Start(1, [goal |-> ThoughtGoal, domain |-> "general",
                 strategies |-> args.strategies,
                 cognitiveEnhancement |-> args.cognitive_enhancement,
                 convergenceTarget |-> args.convergence_target])
    /\ UNCHANGED <<cognitiveStates, conceptualLinks, response>>

CreateSuperposition ==
    /\ \E args \in CreateArgs, now \in 0..MaxClock :
          processThought(args, now, Num(0))
    /\ UNCHANGED tacticianVars

\* Math.random() is drawn by the weighted_random method alone
Resolve ==
    /\ \E args \in ResolveArgs :
          IF args.cognitive_resolution_method = "weighted_random"
          THEN \E u \in RandomValues : processThought(args, clock, u)
          ELSE processThought(args, clock, Num(0))
    /\ UNCHANGED tacticianVars

Link ==
    /\ \E args \in LinkArgs : processThought(args, clock, Num(0))
    /\ UNCHANGED tacticianVars

InvalidThought ==
    /\ \E args \in InvalidArgs : processThought(args, clock, Num(0))
    /\ UNCHANGED tacticianVars

SingleStrategy ==
    /\ \E args \in StrategyArgs, throws \in BOOLEAN :
          processThoughtStrategy(args, throws)
    /\ UNCHANGED tacticianVars

UnifiedChain == \E args \in ChainArgs : processThoughtChain(args, clock)

\* the chain of the call runs on, the other tool calls interleave
UnifiedChainSelects == ConcSelect

UnifiedChainExecutesStep ==
    /\ \E confidence \in ChainConfidenceValues,
          evidence \in ConcEvidenceCounts :
          StepReturns(1, confidence, evidence)
    /\ UNCHANGED mcpVars

\* the arguments of the call that started an invocation
chainArgs(p) ==
    [NoArgs EXCEPT !.unified_reasoning_chain = TRUE,
                   !.strategies = p.strategies,
                   !.cognitive_enhancement = p.cognitiveEnhancement,
                   !.convergence_target = p.convergenceTarget]

\* executeReasoningChain rejects: the catch block of processThought
UnifiedChainFails ==
    /\ StepThrows(1)
    /\ response' = failed(chainArgs(params[1]), Num(0), "strategy error")
    /\ UNCHANGED <<clock, thoughtHistory, cognitiveStates, conceptualLinks>>

\* executeReasoningChain returns: processThought returns the result
UnifiedChainReturns ==
    /\ Finalize(1)
    /\ response' =
          processed(chainArgs(params[1]), Num(0),
                    "Executed unified reasoning chain.")
    /\ UNCHANGED <<clock, thoughtHistory, cognitiveStates, conceptualLinks>>

\* the names of a list
Names(strategies) == {strategies[k] : k \in 1..Len(strategies)}

\* the tools of the first tools/list handler the module sets
ListedFirst ==
    <<"metacognition", "autonomous", "debugger", "markdown_master",
      "research_pro", "deep_analysis", "optimus_prime", "wildcard">>

\* the tools of the second tools/list handler the module sets
ListedLast == <<"metacognition">>

\* the handlers of the server once the module has run: setRequestHandler
\* keeps one handler per method, the one set last.  The tools/list handlers
\* are kept as the list they return.
requestHandlers ==
    LET set(handlers, method, handler) ==
            [m \in DOMAIN handlers \cup {method} |->
                IF m = method THEN handler ELSE handlers[m]]
        none == [m \in {} |-> <<>>]
    IN  set(set(none, "tools/list", ListedFirst), "tools/list", ListedLast)

\* the names a tools/call request is made with
CalledTools == {"metacognition", "autonomous", "wildcard", "unlisted"}

\* the arguments a tools/call request is made with
CalledArgs == { [NoArgs EXCEPT !.cognitive_link_concepts = <<"A", "B">>] }

\* the response of the tools/call handler to a name it does not serve:
\* `Unknown tool: ${name}`
unknownTool(name) ==
    [NoResponse EXCEPT !.isError = TRUE, !.error = "Unknown tool",
                       !.tool = name]

\* a tools/list request
ListTools ==
    /\ response' = [NoResponse EXCEPT !.status = "tools",
                                      !.tools = requestHandlers["tools/list"]]
    /\ UNCHANGED <<clock, thoughtHistory, cognitiveStates, conceptualLinks>>
    /\ UNCHANGED tacticianVars

\* a tools/call request: "metacognition" goes to processThought, every
\* other name is answered with the unknown-tool error
CallTool ==
    /\ \E name \in CalledTools, args \in CalledArgs :
          IF name = "metacognition"
          THEN processThought(args, clock, Num(0))
          ELSE /\ response' = unknownTool(name)
               /\ UNCHANGED <<clock, thoughtHistory, cognitiveStates,
                              conceptualLinks>>
    /\ UNCHANGED tacticianVars

\* the orchestrator MetacognitionMCP constructs: convergenceTarget 0.99
McpInit ==
    /\ Init
    /\ configArg.convergenceTarget = <<99, 100>>

McpNext ==
    \/ CreateSuperposition
    \/ Resolve
    \/ Link
    \/ InvalidThought
    \/ UnifiedChain
    \/ UnifiedChainSelects
    \/ UnifiedChainExecutesStep
    \/ UnifiedChainFails
    \/ UnifiedChainReturns

McpSpec == McpInit /\ [][McpNext]_vars

---------------------------------------------------------------------------
(* The server: tools/list and tools/call requests *)

\* the arguments of the metacognition calls the server receives: one call
\* per operation, a call that fails validation, and the calls that carry
\* several operation parameters
ServerArgs ==
    { [NoArgs EXCEPT !.cognitive_superposition_concepts = <<"A", "B">>],
      [NoArgs EXCEPT !.cognitive_resolve_state_id = 0],
      [NoArgs EXCEPT !.cognitive_link_concepts = <<"A", "B">>] }
    \cup InvalidArgs \cup SeveralArgs

\* tools/call of metacognition with an operation that completes without
\* suspending
Thought ==
    /\ \E args \in ServerArgs : processThought(args, clock, Num(0))
    /\ UNCHANGED tacticianVars

ServerNext ==
    \/ ListTools
    \/ CallTool
    \/ Thought
    \/ SingleStrategy
    \/ UnifiedChain
    \/ UnifiedChainSelects
    \/ UnifiedChainExecutesStep
    \/ UnifiedChainFails
    \/ UnifiedChainReturns

ServerSpec == McpInit /\ [][ServerNext]_vars

---------------------------------------------------------------------------
(* Properties *)

Terminated(c) == pc[c] \in {"returned", "rejected"}

StepsBy(c, s) ==
    Cardinality({k \in 1..Len(chain[c].steps) : chain[c].steps[k].strategy = s})

RECURSIVE AppendedFor(_, _)
AppendedFor(cs, s) ==
    IF cs = {} THEN 0
    ELSE LET c == CHOOSE x \in cs : TRUE
         IN  StepsBy(c, s) + AppendedFor(cs \ {c}, s)

\* the position of an invocation in its run: it grows with every step the
\* invocation takes and ends at 2 * maxStepsPerChain + 2
Rank(c) ==
    IF pc[c] = "idle" THEN 0
    ELSE IF Terminated(c) THEN 2 * config.maxStepsPerChain + 2
    ELSE 1 + 2 * loopI[c]
           + (IF pc[c] = "exec" THEN 1 ELSE 0)
           + (IF convergenceAchieved[c] THEN 2 ELSE 0)

\* C1: an invocation makes at most maxStepsPerChain strategy selections and
\* appends at most maxStepsPerChain steps, whatever the inputs and whichever
\* strategies fail or are missing, and it terminates: every step it takes
\* moves it up a bounded rank.
C1_Step(c) ==
    /\ selections'[c] <= config.maxStepsPerChain
    /\ dispatched'[c] <= config.maxStepsPerChain
    /\ Len(chain'[c].steps) <= config.maxStepsPerChain
    /\ Rank(c)' <= 2 * config.maxStepsPerChain + 2
    /\ <<pc[c], chain[c], loopI[c], selections[c], convergenceAchieved[c]>>'
          # <<pc[c], chain[c], loopI[c], selections[c], convergenceAchieved[c]>>
       => Rank(c)' > Rank(c)

C1_BoundedAndTerminates == [][\A c \in Chains : C1_Step(c)]_vars

\* the step cap is exhausted by selections, some of them of a missing strategy
C1_Witness ==
    /\ pc[1] = "returned"
    /\ selections[1] = config.maxStepsPerChain
    /\ selections[1] > 1
    /\ Len(chain[1].steps) < selections[1]

\* C2: an error thrown by executeStep never aborts the invocation; it can
\* fail only before any strategy has been executed.
C2_StrategyErrorNeverAborts ==
    \A c \in Chains : pc[c] = "rejected" => dispatched[c] = 0

\* C3: when every dispatched strategy failed, the invocation returns normally
\* with zero steps, stepsExecuted = 0 and convergenceAchieved = false.
C3_AllFailReturnsEmptyChain ==
    \A c \in Chains :
        (Terminated(c) /\ dispatched[c] > 0 /\ Len(chain[c].steps) = 0)
        => /\ pc[c] = "returned"
           /\ result[c].stepsExecuted = 0
           /\ ~result[c].convergenceAchieved

\* C4: under every interleaving of the invocations, totalExecutions of each
\* strategy equals the number of steps appended for it across all chains.
C4_NoLostUpdate ==
    \A s \in StrategyNames :
        performanceMetrics[s].totalExecutions = AppendedFor(Chains, s)

\* both invocations have appended a step of one strategy, one of them while
\* the other was between its steps
C4_Witness ==
    /\ StepsBy(1, "Causal") >= 1
    /\ StepsBy(2, "Causal") >= 1
    /\ pc[1] = "exec"
    /\ pc[2] = "exec"
    /\ performanceMetrics["Causal"].totalExecutions = 2

\* C5: convergence is recomputed at every appended step, the flag is set
\* exactly when overallConvergence >= the effective target, nothing is
\* selected or appended once it is set, and the invocation returns it: true
\* in that case, false after the step cap otherwise.
C5_Step(c) ==
    /\ chain'[c].steps # chain[c].steps =>
          LET m == calculateConvergenceMetrics(chain'[c])
          IN  /\ chain'[c].convergenceScore = m.overallConvergence
              /\ convergenceAchieved'[c] =
                    RLeq(effectiveTarget(config, params[c].convergenceTarget),
                         m.overallConvergence)
    /\ convergenceAchieved[c] =>
          /\ convergenceAchieved'[c]
          /\ chain'[c].steps = chain[c].steps
          /\ selections'[c] = selections[c]
          /\ dispatched'[c] = dispatched[c]
    /\ (pc[c] # "returned" /\ pc'[c] = "returned") =>
          /\ result'[c].convergenceAchieved = convergenceAchieved[c]
          /\ ~convergenceAchieved[c] => loopI[c] = maxStepsPerChain(config)
          /\ convergenceAchieved[c] => Len(chain[c].steps) >= 1

C5_StopsAtConvergence == [][\A c \in Chains : C5_Step(c)]_vars

\* converged at the first step, before the step cap
C5_Witness ==
    /\ pc[1] = "returned"
    /\ result[1].convergenceAchieved
    /\ Len(chain[1].steps) = 1
    /\ config.maxStepsPerChain = 2

DefaultConfigured ==
    configArg.convergenceTarget \in {NoNum, <<99, 100>>}

\* the flag of an invocation that has appended a step tells the threshold
\* its loop uses
UsesThreshold(c, t) ==
    Len(chain[c].steps) > 0 =>
        (convergenceAchieved[c] <=> RLeq(t, chain[c].convergenceScore))

C7_CallerTargetIsUsed ==
    \A c \in Chains :
        (pc[c] # "idle" /\ params[c].goal.string
         /\ params[c].convergenceTarget # NoNum)
        => UsesThreshold(c, params[c].convergenceTarget)

\* C8: all five metrics calculateConvergenceMetrics returns lie in [0,1].
C8_MetricsInUnitInterval ==
    \A c \in Chains :
        pc[c] = "returned" =>
            LET m == result[c].convergenceMetrics
            IN  /\ InUnit(m.cognitiveCoherence)
                /\ InUnit(m.strategicAlignment)
                /\ InUnit(m.evidenceConsistency)
                /\ InUnit(m.conclusionStability)
                /\ InUnit(m.overallConvergence)

SameCoherence(c, d) ==
    /\ chain[c].cognitiveState.present = chain[d].cognitiveState.present
    /\ chain[c].cognitiveState.coherenceLevel
          = chain[d].cognitiveState.coherenceLevel

RECURSIVE SumOfSquares(_, _)
SumOfSquares(steps, j) ==
    IF j = 0 THEN Num(0)
    ELSE RAdd(SumOfSquares(steps, j - 1), Square(steps[j].confidence))

\* the variance of the step confidences: mean of squares - square of mean
VarianceOf(steps) ==
    LET n == Len(steps)
    IN  RSub(RDivInt(SumOfSquares(steps, n), n),
             Square(RDivInt(sumConfidence(steps, n), n)))

\* C10: for a non-empty chain the metrics are coherence (1 without a state),
\* max(0, 1 - variance), min(1, evidence / steps), max(0, last - first + 0.5)
\* (0.5 for one step) and 0.3 c + 0.3 a + 0.2 e + 0.2 s.
C10_MetricsFormula ==
    \A c \in Chains :
        (pc[c] = "returned" /\ Len(chain[c].steps) > 0) =>
            LET st == chain[c].steps
                n == Len(st)
                m == result[c].convergenceMetrics
                coherence ==
                    IF chain[c].cognitiveState.present
                    THEN chain[c].cognitiveState.coherenceLevel ELSE Num(1)
                alignment ==
                    RMax(Num(0), RSub(Num(1), VarianceOf(st)))
                evidence ==
                    RMin(Num(1),
                         Norm(sumEvidence(st, n), n))
                stability ==
                    IF n >= 2
                    THEN RMax(Num(0),
                              RAdd(RSub(st[n].confidence, st[1].confidence),
                                   <<5, 10>>))
                    ELSE <<1, 2>>
            IN  /\ m.cognitiveCoherence = coherence
                /\ m.strategicAlignment = alignment
                /\ m.evidenceConsistency = evidence
                /\ m.conclusionStability = stability
                /\ RMul(m.overallConvergence, Num(10)) =
                      RAdd(RAdd(RMul(coherence, Num(3)), RMul(alignment, Num(3))),
                           RAdd(RMul(evidence, Num(2)), RMul(stability, Num(2))))

\* two steps of different confidence, evidence and a decayed cognitive state
C10_Witness ==
    /\ pc[1] = "returned"
    /\ Len(chain[1].steps) = 2
    /\ chain[1].steps[1].confidence # chain[1].steps[2].confidence
    /\ chain[1].steps[1].evidence + chain[1].steps[2].evidence > 0
    /\ chain[1].cognitiveState.present
    /\ chain[1].cognitiveState.measurementCount = 2

\* C11: for a chain with zero steps calculateConvergenceMetrics returns
\* cognitiveCoherence 1 and 0 for the four other metrics, with or without a
\* cognitive state and whatever the coherence of that state.
C11_ZeroStepMetrics ==
    \A c \in Chains :
        (pc[c] = "returned" /\ Len(chain[c].steps) = 0) =>
            LET m == result[c].convergenceMetrics
            IN  /\ m.cognitiveCoherence = Num(1)
                /\ m.strategicAlignment = Num(0)
                /\ m.evidenceConsistency = Num(0)
                /\ m.conclusionStability = Num(0)
                /\ m.overallConvergence = Num(0)

\* a chain returned without a step whose cognitive state has decayed
C11_Witness ==
    /\ pc[1] = "returned"
    /\ Len(chain[1].steps) = 0
    /\ chain[1].cognitiveState.present
    /\ RLt(chain[1].cognitiveState.coherenceLevel, Num(1))

Created(r) ==
    ~r.isError /\ r.status = "Created cognitive superposition state."

Resolved(r) == ~r.isError /\ r.status = "Resolved cognitive state."

Linked(r) == ~r.isError /\ r.status = "Linked concepts"

\* C12: createSuperposition on n >= 1 concepts stores and returns a state with
\* exactly n amplitudes, confidence = potential = 1/sqrt(n) each, coherence 1
\* and resolution count 0.
C12_CreateSuperposition ==
    (response.args.valid
     /\ response.args.cognitive_superposition_concepts # NoList
     /\ Len(response.args.cognitive_superposition_concepts) > 0)
    => LET concepts == response.args.cognitive_superposition_concepts
           n == Len(concepts)
           state == response.state
       IN  /\ Created(response)
           /\ state.concepts = concepts
           /\ Len(state.hypothesisWeights) = n
           /\ \A k \in 1..n :
                /\ Squared(state.hypothesisWeights[k].confidence) = Norm(1, n)
                /\ Squared(state.hypothesisWeights[k].potential) = Norm(1, n)
           /\ state.coherence = Num(1)
           /\ state.resolutionCount = 0
           /\ state.id \in DOMAIN cognitiveStates
           /\ cognitiveStates[state.id] = state

\* a state of three concepts was created after another one
C12_Witness ==
    /\ Created(response)
    /\ Len(response.state.concepts) = 3
    /\ Cardinality(DOMAIN cognitiveStates) = 2

\* C13 (as claimed): every cognitive state in either map, the tool layer's
\* and the orchestrator's, has as many amplitudes as concepts.
C13_AmplitudesMatchConcepts ==
    /\ \A id \in DOMAIN cognitiveStates :
          Len(cognitiveStates[id].hypothesisWeights)
              = Len(cognitiveStates[id].concepts)
    /\ \A c \in Chains :
          chain[c].cognitiveState.present =>
              Len(chain[c].cognitiveState.conceptualAmplitude)
                  = chain[c].cognitiveState.concepts

\* C14: createSuperposition with an empty concept list is answered with a
\* structured error and leaves the cognitive-state map as it was; no state
\* without concepts is ever held.
C14_Step ==
    (response' # response /\ response'.args.valid
     /\ response'.args.cognitive_superposition_concepts = <<>>)
    => /\ response'.isError
       /\ response'.status = "failed"
       /\ response'.error = "empty set of concepts"
       /\ cognitiveStates' = cognitiveStates

C14_EmptyConceptsRejected ==
    /\ [](\A id \in DOMAIN cognitiveStates :
            Len(cognitiveStates[id].concepts) > 0)
    /\ [][C14_Step]_vars

\* the empty list was rejected while the map held a state
C14_Witness ==
    /\ response.isError
    /\ response.error = "empty set of concepts"
    /\ DOMAIN cognitiveStates # {}

\* confidence^2 + potential^2 of the k-th amplitude of a state
Score(state, k) ==
    RAdd(Squared(state.hypothesisWeights[k].confidence),
         Squared(state.hypothesisWeights[k].potential))

\* C15: resolve(stateId, highest_confidence) returns the concept at the lowest
\* index that maximizes confidence^2 + potential^2.
C15_HighestConfidence ==
    (Resolved(response)
     /\ response.args.cognitive_resolution_method = "highest_confidence")
    => LET state == cognitiveStates[response.resolution.stateId]
           n == Len(state.concepts)
           best == CHOOSE k \in 1..n :
                      /\ \A j \in 1..n : RLeq(Score(state, j), Score(state, k))
                      /\ \A j \in 1..(k - 1) :
                            RLt(Score(state, j), Score(state, k))
       IN  response.resolution.resolvedConcept = state.concepts[best]

\* a state of three equal amplitudes was resolved by highest confidence
C15_Witness ==
    /\ Resolved(response)
    /\ response.args.cognitive_resolution_method = "highest_confidence"
    /\ Len(cognitiveStates[response.resolution.stateId].concepts) = 3
    /\ response.resolution.resolvedConcept = "B"

RECURSIVE Power(_, _)
Power(x, k) == IF k = 0 THEN Num(1) ELSE RMul(x, Power(x, k - 1))

\* C16: a successful resolve adds exactly 1 to the state's resolution count
\* and multiplies its coherence by exactly 0.9, returns the stored coherence
\* and changes no other state; after k resolutions the count is k and the
\* coherence 0.9^k.
C16_Step ==
    (response' # response /\ Resolved(response'))
    => LET id == response'.resolution.stateId
       IN  /\ id \in DOMAIN cognitiveStates
           /\ DOMAIN cognitiveStates' = DOMAIN cognitiveStates
           /\ cognitiveStates'[id].resolutionCount
                 = cognitiveStates[id].resolutionCount + 1
           /\ cognitiveStates'[id].coherence
                 = RMul(cognitiveStates[id].coherence, <<9, 10>>)
           /\ response'.resolution.postResolutionCoherence
                 = cognitiveStates'[id].coherence
           /\ \A other \in DOMAIN cognitiveStates \ {id} :
                 cognitiveStates'[other] = cognitiveStates[other]

C16_ResolveDecays ==
    /\ [](\A id \in DOMAIN cognitiveStates :
            cognitiveStates[id].coherence
                = Power(<<9, 10>>, cognitiveStates[id].resolutionCount))
    /\ [][C16_Step]_vars

\* one of two states was resolved
C16_Witness ==
    /\ Resolved(response)
    /\ Cardinality(DOMAIN cognitiveStates) = 2
    /\ cognitiveStates[response.resolution.stateId].resolutionCount = 1
    /\ response.resolution.postResolutionCoherence = <<9, 10>>

\* C17: resolve with an id that is not in the map fails with a not-found
\* error and changes no cognitive state.
C17_Step ==
    (response' # response /\ response'.args.valid
     /\ operationOf(response'.args) = "CognitiveResolution"
     /\ response'.args.cognitive_resolve_state_id \notin DOMAIN cognitiveStates)
    => /\ response'.isError
       /\ response'.error = "not found"
       /\ cognitiveStates' = cognitiveStates

C17_UnknownStateRejected == [][C17_Step]_vars

\* an unknown id was rejected while the map held a resolved state
C17_Witness ==
    /\ response.isError
    /\ response.error = "not found"
    /\ \E id \in DOMAIN cognitiveStates :
          cognitiveStates[id].resolutionCount = 1

\* C18: the coherence of every cognitive state starts at 1, stays in [0,1]
\* and never increases, and its measurement count starts at 0 and never
\* decreases, across create, resolve and selector operations.
C18_Step ==
    /\ \A id \in DOMAIN cognitiveStates' :
          LET new == cognitiveStates'[id]
          IN  /\ InUnit(new.coherence)
              /\ IF /\ id \in DOMAIN cognitiveStates
                    /\ ~(response' # response /\ Created(response')
                         /\ response'.state.id = id)
                 THEN /\ RLeq(new.coherence, cognitiveStates[id].coherence)
                      /\ new.resolutionCount
                            >= cognitiveStates[id].resolutionCount
                 ELSE /\ new.coherence = Num(1)
                      /\ new.resolutionCount = 0
    /\ \A c \in Chains :
          LET new == chain'[c].cognitiveState
              old == chain[c].cognitiveState
          IN  new.present =>
                /\ InUnit(new.coherenceLevel)
                /\ IF old.present
                   THEN /\ RLeq(new.coherenceLevel, old.coherenceLevel)
                        /\ new.measurementCount >= old.measurementCount
                   ELSE /\ new.coherenceLevel = Num(1)
                        /\ new.measurementCount = 0

C18_CoherenceMonotone == [][C18_Step]_vars

\* a resolved state and a chain state measured by the selector
C18_Witness ==
    /\ \E id \in DOMAIN cognitiveStates :
          /\ cognitiveStates[id].resolutionCount = 1
          /\ cognitiveStates[id].coherence = <<9, 10>>
    /\ chain[1].cognitiveState.present
    /\ chain[1].cognitiveState.measurementCount = 2
    /\ RLt(chain[1].cognitiveState.coherenceLevel, Num(1))

\* the first index, 1-based, whose cumulative weight exceeds r; 0 if none
RECURSIVE FirstExceeding(_, _, _, _)
FirstExceeding(w, r, k, cumulative) ==
    IF k > Len(w) THEN 0
    ELSE LET c == RAdd(cumulative, w[k])
         IN  IF RLt(r, c) THEN k ELSE FirstExceeding(w, r, k + 1, c)

C19_ResolveDraw ==
    (Resolved(response)
     /\ response.args.cognitive_resolution_method = "weighted_random")
    => LET state == cognitiveStates[response.resolution.stateId]
           w == resolveProbabilities(state)
           r == RMul(response.random, RSum(w))
           index == FirstExceeding(w, r, 1, Num(0))
       IN  /\ index \in 1..Len(state.concepts)
           /\ response.resolution.resolvedConcept = state.concepts[index]

C19_SelectStep(c) ==
    (selections'[c] = selections[c] + 1 /\ chain[c].cognitiveState.present)
    => LET w == weightedProbabilities(chain[c].cognitiveState,
                                      selectedStrategies[c],
                                      performanceMetrics)
       IN  RSum(w) # Num(0) =>
              \E k \in 1..Len(w) :
                  /\ selectedStrategies[c][k] = strategyName'[c]
                  /\ w[k] # Num(0)

\* C19 (as claimed): for weights w of positive sum and a drawn r in [0, sum),
\* resolve(weighted_random) and the selector pick the first index whose
\* cumulative weight exceeds r: a valid index, never one of weight 0.
C19_WeightedDraw ==
    /\ []C19_ResolveDraw
    /\ [][\A c \in Chains : C19_SelectStep(c)]_vars

\* C20: link records a symmetric edge and is idempotent: B is linked to A
\* exactly when A is linked to B, and repeating the last link call, in either
\* argument order, leaves the adjacency sets unchanged.
C20_LinkSymmetricIdempotent ==
    /\ \A a \in LinkConcepts, b \in LinkConcepts :
          (a \in DOMAIN conceptualLinks /\ b \in conceptualLinks[a])
          <=> (b \in DOMAIN conceptualLinks /\ a \in conceptualLinks[b])
    /\ Linked(response) =>
          LET a == response.args.cognitive_link_concepts[1]
              b == response.args.cognitive_link_concepts[2]
          IN  /\ b \in conceptualLinks[a]
              /\ _establishConceptualLinkage(conceptualLinks, a, b)
                    = conceptualLinks
              /\ _establishConceptualLinkage(conceptualLinks, b, a)
                    = conceptualLinks

\* B was linked to A after A had been linked to itself
C20_Witness ==
    /\ Linked(response)
    /\ response.args.cognitive_link_concepts = <<"B", "A">>
    /\ "A" \in DOMAIN conceptualLinks
    /\ conceptualLinks["A"] = {"A", "B"}
    /\ conceptualLinks["B"] = {"A"}

\* a selection of invocation c made without a cognitive state, from a list
\* that is not empty
RoundRobinStep(c) ==
    /\ pc[c] = "loop"
    /\ selections'[c] = selections[c] + 1
    /\ ~chain[c].cognitiveState.present
    /\ Len(selectedStrategies[c]) > 0

\* C21 (as claimed): without a cognitive state the selected strategy is the
\* candidate at index (number of steps already in the chain) modulo the
\* length of the list.
C21_Step_ByStepCount(c) ==
    RoundRobinStep(c)
    => strategyName'[c] =
          selectedStrategies[c][(Len(chain[c].steps)
                                    % Len(selectedStrategies[c])) + 1]

C21_RoundRobinByStepCount ==
    [][\A c \in Chains : C21_Step_ByStepCount(c)]_vars

\* C21 (amended): without a cognitive state the selected strategy is the
\* candidate at index (number of selections the loop has already made)
\* modulo the length of the list; a selection of an unregistered name counts
\* although it appends no step.
C21_Step(c) ==
    RoundRobinStep(c)
    => strategyName'[c] =
          selectedStrategies[c][(selections[c]
                                    % Len(selectedStrategies[c])) + 1]

C21_RoundRobinBySelectionCount == [][\A c \in Chains : C21_Step(c)]_vars

\* the second candidate was selected while the chain had no step
C21_Witness ==
    /\ pc[1] = "exec"
    /\ ~chain[1].cognitiveState.present
    /\ selectedStrategies[1] = <<"OnlineSearch", "Causal">>
    /\ strategyName[1] = "Causal"
    /\ selections[1] = 2
    /\ Len(chain[1].steps) = 0

\* the weight the claim gives candidate k: the squared magnitude of the
\* amplitude at (k - 1) mod length, times averageConfidence * successRate
\* for a strategy with history and 0.5 for one never executed
ClaimedWeight(cognitiveState, availableStrategies, metrics, k) ==
    LET probabilities == cognitiveState.conceptualAmplitude
        strategy == availableStrategies[k]
        executed ==
            /\ strategy \in DOMAIN metrics
            /\ metrics[strategy].totalExecutions > 0
    IN  RMul(probabilities[((k - 1) % Len(probabilities)) + 1],
             IF executed
             THEN RMul(metrics[strategy].averageConfidence,
                       metrics[strategy].successRate)
             ELSE <<1, 2>>)

\* C22 (as claimed): with a cognitive state, the weight of candidate i in a
\* selection is (confidence^2 + potential^2 of the amplitude at i mod
\* length) * performanceWeight, where performanceWeight is
\* averageConfidence * successRate for a strategy with history and 0.5 for
\* a strategy not yet executed.
C22_SelectorWeights ==
    \A c \in Chains :
        LET cs == chain[c].cognitiveState
        IN  (pc[c] = "loop" /\ loopContinues(c) /\ cs.present
             /\ cs.concepts > 0)
            => \A k \in 1..Len(selectedStrategies[c]) :
                  weightedProbabilities(cs, selectedStrategies[c],
                                        performanceMetrics)[k]
                  = ClaimedWeight(cs, selectedStrategies[c],
                                  performanceMetrics, k)

\* C23: every selection made with a cognitive state adds 1 to its
\* measurementCount and multiplies its coherenceLevel by 0.95; at every
\* moment, and so when executeReasoningChain returns, measurementCount is the
\* number of selections made and coherenceLevel is 0.95 to that power.
C23_Step(c) ==
    (chain[c].cognitiveState.present /\ selections'[c] = selections[c] + 1)
    => /\ chain'[c].cognitiveState.measurementCount
             = chain[c].cognitiveState.measurementCount + 1
       /\ chain'[c].cognitiveState.coherenceLevel
             = RMul(chain[c].cognitiveState.coherenceLevel, SelectorDecay)

C23_Measured(c) ==
    chain[c].cognitiveState.present
    => /\ chain[c].cognitiveState.measurementCount = selections[c]
       /\ chain[c].cognitiveState.coherenceLevel
             = Power(SelectorDecay, selections[c])

C23_SelectorMeasures ==
    /\ [](\A c \in Chains : C23_Measured(c))
    /\ [][\A c \in Chains : C23_Step(c)]_vars

\* an invocation returned after two selections, one of which appended a step
C23_Witness ==
    /\ pc[1] = "returned"
    /\ chain[1].cognitiveState.present
    /\ selections[1] = 2
    /\ Len(chain[1].steps) = 1
    /\ chain[1].cognitiveState.measurementCount = 2
    /\ chain[1].cognitiveState.coherenceLevel = <<361, 400>>


\* C24 (as claimed): without a caller-supplied list the candidate set always
\* has Abductive and Bayesian, a goal with a temporal keyword adds
\* Sequential, and a goal with a financial keyword adds Financial.
C24_AutoStrategies ==
    \A c \in Chains :
        (pc[c] \notin {"idle", "rejected"} /\ params[c].strategies = NoList)
        => /\ {"Abductive", "Bayesian"} \subseteq Names(selectedStrategies[c])
           /\ params[c].goal.temporal
                 => "Sequential" \in Names(selectedStrategies[c])
           /\ params[c].goal.financial
                 => "Financial" \in Names(selectedStrategies[c])

\* C25: the final conclusion of a chain with at least one step takes its
\* statement from the step of highest confidence, the earliest one on ties;
\* its premises are the ids of the premises of all steps, each once; its
\* confidence is min(1, average step confidence * 1.1); and the
\* ConvergenceMetrics it carries are the metrics of the final chain, the
\* ones the invocation returns.
C25_Finalized(c) ==
    LET steps == chain[c].steps
        n == Len(steps)
        final == chain[c].finalConclusion
        best == final.bestStep
    IN  (pc[c] = "returned" /\ n >= 1)
        => /\ final.present
           /\ best \in 1..n
           /\ \A k \in 1..n : RLeq(steps[k].confidence, steps[best].confidence)
           /\ \A k \in 1..(best - 1) :
                 steps[k].confidence # steps[best].confidence
           /\ \A i \in 1..Len(final.premises), j \in 1..Len(final.premises) :
                 final.premises[i] = final.premises[j] => i = j
           /\ Names(final.premises)
                 = UNION {Names(steps[k].premises) : k \in 1..n}
           /\ final.confidence
                 = RMin(Num(1),
                        RMul(RDivInt(RSum([k \in 1..n |-> steps[k].confidence]),
                                     n), <<11, 10>>))
           /\ final.convergenceMetrics = calculateConvergenceMetrics(chain[c])
           /\ final.convergenceMetrics = result[c].convergenceMetrics

C26_Step(c) ==
    LET steps == chain[c].steps
        after == chain'[c].steps
    IN  pc[c] # "idle"
        => /\ Len(after) \in {Len(steps), Len(steps) + 1}
           /\ SubSeq(after, 1, Len(steps)) = steps
           /\ (~chain[c].finalConclusion.present
                /\ chain'[c].finalConclusion.present) => after = steps
           /\ chain[c].finalConclusion.present => chain'[c] = chain[c]

C26_Assigned(c) ==
    /\ pc[c] = "returned" => chain[c].finalConclusion.present
    /\ chain[c].finalConclusion.present => pc[c] = "returned"

C26_AppendOnlyFinalizedOnce ==
    /\ [](\A c \in Chains : C26_Assigned(c))
    /\ [][\A c \in Chains : C26_Step(c)]_vars

\* a chain of two steps, finalized
C26_Witness ==
    /\ pc[1] = "returned"
    /\ Len(chain[1].steps) = 2
    /\ chain[1].finalConclusion.present
    /\ chain[1].finalConclusion.bestStep = 2

\* the sum of the confidences of the steps executed by s in the invocations cs
RECURSIVE ConfidenceSumFor(_, _)
ConfidenceSumFor(cs, s) ==
    IF cs = {} THEN Num(0)
    ELSE LET c == CHOOSE x \in cs : TRUE
             steps == chain[c].steps
         IN  RAdd(RSum([k \in 1..Len(steps) |->
                          IF steps[k].strategy = s THEN steps[k].confidence
                          ELSE Num(0)]),
                  ConfidenceSumFor(cs \ {c}, s))

\* the number of steps executed by s in the invocations cs with a confidence
\* of at least 0.7
RECURSIVE SuccessesFor(_, _)
SuccessesFor(cs, s) ==
    IF cs = {} THEN 0
    ELSE LET c == CHOOSE x \in cs : TRUE
             steps == chain[c].steps
         IN  Cardinality({k \in 1..Len(steps) :
                            /\ steps[k].strategy = s
                            /\ RLeq(<<7, 10>>, steps[k].confidence)})
             + SuccessesFor(cs \ {c}, s)

\* C27: after n >= 1 updates for a strategy, with the confidences c1..cn of
\* its steps, its record has totalExecutions = n, averageConfidence =
\* (c1 + ... + cn) / n and successRate = (number of ci >= 0.7) / n, the
\* initial values leaving no trace; the record of a strategy without steps
\* is the initial one, whatever was recorded for the others.
C27_Record(s) ==
    LET n == AppendedFor(Chains, s)
        m == performanceMetrics[s]
    IN  IF n = 0
        THEN /\ m.totalExecutions = 0
             /\ m.averageConfidence = Num(0)
             /\ m.successRate = Num(1)
        ELSE /\ m.totalExecutions = n
             /\ m.averageConfidence = RDivInt(ConfidenceSumFor(Chains, s), n)
             /\ m.successRate = Norm(SuccessesFor(Chains, s), n)

C27_TrackerMeans == \A s \in StrategyNames : C27_Record(s)

\* three steps of one strategy in two invocations, two of them successes
C27_Witness ==
    /\ StepsBy(1, "Causal") = 2
    /\ StepsBy(2, "Causal") = 1
    /\ performanceMetrics["Causal"].totalExecutions = 3
    /\ performanceMetrics["Causal"].averageConfidence = <<17, 30>>
    /\ performanceMetrics["Causal"].successRate = <<2, 3>>
    /\ performanceMetrics["Bayesian"].totalExecutions = 0

\* the sum of the processing times of the steps executed by s in the
\* invocations cs
RECURSIVE ProcessingTimeFor(_, _)
ProcessingTimeFor(cs, s) ==
    IF cs = {} THEN 0
    ELSE LET c == CHOOSE x \in cs : TRUE
             steps == chain[c].steps
         IN  RSum([k \in 1..Len(steps) |->
                     IF steps[k].strategy = s
                     THEN Num(steps[k].processingTimeMs) ELSE Num(0)])[1]
             + ProcessingTimeFor(cs \ {c}, s)

\* C28 (as claimed): after any sequence of updates for a strategy,
\* averageProcessingTime is the mean of the processing times of its steps,
\* a step without (or with zero) processing-time metadata counting as 0.
C28_ProcessingTimeMean ==
    \A s \in StrategyNames :
        LET n == AppendedFor(Chains, s)
        IN  n >= 1
            => performanceMetrics[s].averageProcessingTime
                  = Norm(ProcessingTimeFor(Chains, s), n)

\* C29 (as claimed): every step appended to a chain has a confidence in
\* [0, 1], and so has every conclusion: the conclusion of a step, which
\* carries the confidence of its step, and the final conclusion, also the
\* one of a chain without steps.
C29_ConfidenceInUnit ==
    \A c \in Chains :
        /\ \A k \in 1..Len(chain[c].steps) :
              InUnit(chain[c].steps[k].confidence)
        /\ chain[c].finalConclusion.present
              => InUnit(chain[c].finalConclusion.confidence)

\* C30 (as claimed): every public entry point returns a structured success
\* or error result for every input, malformed input and failing strategies
\* included; for executeReasoningChain: no invocation ends by rejecting.
C30_NeverRejects ==
    \A c \in Chains : Terminated(c) => pc[c] = "returned"

\* C31: with a caller-supplied strategy list, every step of the chain was
\* produced by a strategy named in the list, every selection names a
\* strategy of the list, and the tracker records of all other names are the
\* initial ones.
C31_CallerListRespected ==
    (params[1].strategies # NoList /\ pc[1] # "idle")
    => LET listed == Names(params[1].strategies)
       IN  /\ \A k \in 1..Len(chain[1].steps) :
                 chain[1].steps[k].strategy \in listed
           /\ pc[1] = "exec" => strategyName[1] \in listed
           /\ \A s \in StrategyNames \ listed :
                 performanceMetrics[s] = initializeStrategies[s]

\* a chain with a cognitive state, called with [OnlineSearch, Causal], has
\* returned with a Causal step
C31_Witness ==
    /\ pc[1] = "returned"
    /\ params[1].strategies = <<"OnlineSearch", "Causal">>
    /\ chain[1].cognitiveState.present
    /\ Len(chain[1].steps) >= 1
    /\ performanceMetrics["Causal"].totalExecutions >= 1

\* C32: under every interleaving, a chain and its cognitive state change only
\* in a step of the invocation that owns them; every step of a chain was
\* appended by its own invocation (it is counted by that invocation and names
\* a strategy that invocation selected from its own list), and
\* measurementCount of a cognitive state is the number of selections made by
\* the invocation that created it.
C32_Acts(c) ==
    <<pc[c], selections[c]>>' # <<pc[c], selections[c]>>

C32_Step(c) ==
    chain'[c] # chain[c]
    => /\ C32_Acts(c)
       /\ \A d \in Chains \ {c} : chain'[d] = chain[d] /\ ~C32_Acts(d)

C32_Owned(c) ==
    /\ Len(chain[c].steps) = stepsExecuted[c]
    /\ \A k \in 1..Len(chain[c].steps) :
          chain[c].steps[k].strategy \in Names(selectedStrategies[c])
    /\ chain[c].cognitiveState.present
       => /\ pc[c] # "idle" /\ params[c].cognitiveEnhancement
          /\ chain[c].cognitiveState.strategies = params[c].strategies
          /\ chain[c].cognitiveState.measurementCount = selections[c]

C32_ChainsIsolated ==
    /\ [](\A c \in Chains : C32_Owned(c))
    /\ [][\A c \in Chains : C32_Step(c)]_vars

\* two invocations hold a cognitive state each: the first is suspended in
\* the strategy it selected, the second has appended a step meanwhile
C32_Witness ==
    /\ chain[1].cognitiveState.present
    /\ chain[2].cognitiveState.present
    /\ pc[1] = "exec"
    /\ selections[1] = 1
    /\ chain[1].cognitiveState.measurementCount = 1
    /\ Len(chain[1].steps) = 0
    /\ pc[2] = "loop"
    /\ selections[2] = 1
    /\ Len(chain[2].steps) = 1
    /\ chain[2].steps[1].strategy = "Bayesian"
    /\ strategyName[1] = "Causal"

\* C33: a successful create never deletes or replaces a stored state: every
\* state stored before it is still stored under its id with its concepts,
\* the returned state is stored under its own id, and the map has grown by
\* one state, whatever the clock reading of the call (that of an earlier
\* create included).
C33_Created ==
    /\ thoughtHistory' = thoughtHistory + 1
    /\ ~response'.isError
    /\ response'.status = "Created cognitive superposition state."

C33_StatesKept ==
    [][C33_Created
       => /\ \A id \in DOMAIN cognitiveStates :
                /\ id \in DOMAIN cognitiveStates'
                /\ cognitiveStates'[id].concepts = cognitiveStates[id].concepts
          /\ response'.state.id \in DOMAIN cognitiveStates'
          /\ cognitiveStates'[response'.state.id].concepts
                = response'.state.concepts
          /\ Cardinality(DOMAIN cognitiveStates')
                = Cardinality(DOMAIN cognitiveStates) + 1]_vars

\* C34: the server provides the eight tools of the README: a tools/list
\* request returns all eight, and a tools/call request naming any of them is
\* dispatched to a handler and not answered with the unknown-tool error.
ReadmeTools ==
    {"metacognition", "autonomous", "debugger", "markdown_master",
     "research_pro", "deep_analysis", "optimus_prime", "wildcard"}

C34_EightTools ==
    /\ response.status = "tools" => Names(response.tools) = ReadmeTools
    /\ response.error = "Unknown tool" => response.tool \notin ReadmeTools

\* C35: resolveSequentially takes the 20 names of the fixed sequence in
\* order, each at most once; a strategy that throws is passed over and the
\* run never rejects; nothing is appended after a step whose conclusion has
\* confidence >= 0.99, and the run returns before the end of the sequence
\* only after such a step; the steps are in sequence order; the returned
\* value is the conclusion synthesized from the appended steps.
SequenceIndex(name) ==
    CHOOSE k \in 1..Len(logicalSequence) : logicalSequence[k] = name

C35_InOrder ==
    LET steps == chain[1].steps
    IN  /\ \A k \in 1..Len(steps) :
              /\ steps[k].strategy \in Names(logicalSequence)
              /\ SequenceIndex(steps[k].strategy)
                    <= loopI[1]
              /\ k < Len(steps)
                 => /\ SequenceIndex(steps[k].strategy)
                          < SequenceIndex(steps[k + 1].strategy)
                    /\ RLt(steps[k].conclusion, <<99, 100>>)
        /\ pc[1] = "called"
           => /\ strategyName[1] = logicalSequence[loopI[1] + 1]
              /\ \A k \in 1..Len(steps) : RLt(steps[k].conclusion, <<99, 100>>)

C35_Returned ==
    pc[1] = "returned"
    => LET steps == chain[1].steps
       IN  /\ result[1] = synthesizeFinalConclusion(chain[1])
           /\ \/ loopI[1] = Len(logicalSequence)
              \/ /\ Len(steps) >= 1
                 /\ RLeq(<<99, 100>>, steps[Len(steps)].conclusion)
                 /\ SequenceIndex(steps[Len(steps)].strategy) = loopI[1]

C35_Step ==
    /\ loopI'[1] \in {loopI[1], loopI[1] + 1}
    /\ (pc[1] = "called" /\ chain'[1] = chain[1])
       => /\ loopI'[1] = loopI[1] + 1
          /\ pc'[1] = IF loopI'[1] = Len(logicalSequence)
                      THEN "returned" ELSE "sequence"

C35_Sequential ==
    /\ [](pc[1] # "rejected" /\ loopI[1] <= Len(logicalSequence)
          /\ C35_InOrder /\ C35_Returned)
    /\ [][C35_Step]_vars

\* the run passed over a strategy that threw, appended a step, and returned
\* early after a second step whose conclusion has confidence 0.99
C35_Witness ==
    /\ pc[1] = "returned"
    /\ loopI[1] = 4
    /\ Len(chain[1].steps) = 2
    /\ chain[1].steps[1].strategy = "HypothesisGeneration"
    /\ chain[1].steps[2].strategy = "Abductive"
    /\ chain[1].steps[2].conclusion = <<99, 100>>
    /\ result[1].bestStep = 1

\* C36: when executeReasoningChain returns, chain.metadata.convergenceScore
\* equals overallConvergence of the returned convergenceMetrics, for every
\* strategy list and with or without a cognitive state.
C36_ScoreIsReturnedConvergence ==
    pc[1] = "returned"
    => chain[1].convergenceScore
          = result[1].convergenceMetrics.overallConvergence

\* C37: with a caller-supplied list that is empty or names only OnlineSearch,
\* the one name with no registered strategy, executeReasoningChain (given a
\* goal that is a string) never calls a strategy and never rejects: it
\* returns zero steps, stepsExecuted 0, convergenceAchieved false, the
\* conclusion of a chain with no step (confidence 0), and every tracker
\* record is the initial one.
C37_NothingToRun ==
    (/\ pc[1] # "idle"
     /\ params[1].goal.string
     /\ params[1].strategies # NoList
     /\ Names(params[1].strategies) \subseteq {"OnlineSearch"})
    => /\ pc[1] \in {"loop", "returned"}
       /\ Len(chain[1].steps) = 0
       /\ stepsExecuted[1] = 0
       /\ ~convergenceAchieved[1]
       /\ performanceMetrics = initializeStrategies
       /\ pc[1] = "returned"
          => /\ result[1].stepsExecuted = 0
             /\ ~result[1].convergenceAchieved
             /\ chain[1].finalConclusion.present
             /\ chain[1].finalConclusion.bestStep = 0
             /\ chain[1].finalConclusion.confidence = Num(0)
             /\ chain[1].finalConclusion.premises = <<>>

\* a run over the list [OnlineSearch] with a cognitive state has returned
\* after as many selections as the step cap allows
C37_Witness ==
    /\ pc[1] = "returned"
    /\ params[1].strategies = <<"OnlineSearch">>
    /\ params[1].cognitiveEnhancement
    /\ selections[1] = 2
    /\ result[1].stepsExecuted = 0
    /\ chain[1].finalConclusion.confidence = Num(0)

\* C38: when executeReasoningChain returns, performance.stepsExecuted is the
\* number of steps of the returned chain, and convergenceAchieved implies
\* that the chain has a step and that the returned overallConvergence is at
\* least the effective target (the threshold the loop used, and the caller's
\* own target when one was supplied, 0 included).
C38_ReturnedCounts ==
    pc[1] = "returned"
    => /\ result[1].stepsExecuted = Len(chain[1].steps)
       /\ result[1].convergenceAchieved
          => /\ Len(chain[1].steps) >= 1
             /\ RLeq(effectiveTarget(config, params[1].convergenceTarget),
                     result[1].convergenceMetrics.overallConvergence)
             /\ params[1].convergenceTarget # NoNum
                => RLeq(params[1].convergenceTarget,
                        result[1].convergenceMetrics.overallConvergence)

\* a run with a cognitive state passed over an unregistered name, appended a
\* step that reached the target and returned
C38_Witness ==
    /\ pc[1] = "returned"
    /\ result[1].convergenceAchieved
    /\ chain[1].cognitiveState.present
    /\ selections[1] = 2
    /\ result[1].stepsExecuted = 1
    /\ Len(chain[1].steps) = 1

\* C39: a valid call performs at most one operation, the first present in the
\* order create, resolve, link, single strategy, unified chain, and leaves
\* the state of the other operations (the map of cognitive states, the link
\* sets, the tracker and the chain of the orchestrator) as it was; a call
\* that fails validation, like every other request, changes none of them.
C39_Priority ==
    <<"CognitiveSuperposition", "CognitiveResolution", "ConceptualLinkage",
      "SingleStrategy", "UnifiedReasoningChain">>

C39_Present(args) ==
    { op \in Names(C39_Priority) :
        \/ op = "CognitiveSuperposition"
           /\ args.cognitive_superposition_concepts # NoList
        \/ op = "CognitiveResolution" /\ args.cognitive_resolve_state_id # NoId
        \/ op = "ConceptualLinkage" /\ args.cognitive_link_concepts # NoList
        \/ op = "SingleStrategy" /\ args.strategy # None
        \/ op = "UnifiedReasoningChain" /\ args.unified_reasoning_chain }

C39_Chosen(args) ==
    IF C39_Present(args) = {} THEN "none"
    ELSE C39_Priority[CHOOSE k \in 1..Len(C39_Priority) :
            /\ C39_Priority[k] \in C39_Present(args)
            /\ \A j \in 1..(k - 1) : C39_Priority[j] \notin C39_Present(args)]

C39_StatusOf(op) ==
    CASE op = "CognitiveSuperposition" ->
            "Created cognitive superposition state."
      [] op = "CognitiveResolution" -> "Resolved cognitive state."
      [] op = "ConceptualLinkage" -> "Linked concepts"
      [] op = "SingleStrategy" -> "Successfully executed reasoning."
      [] op = "UnifiedReasoningChain" -> "Executed unified reasoning chain."
      [] OTHER -> "Processed thought successfully."

C39_Frame(op) ==
    /\ op \notin {"CognitiveSuperposition", "CognitiveResolution"}
       => cognitiveStates' = cognitiveStates
    /\ op # "ConceptualLinkage" => conceptualLinks' = conceptualLinks
    /\ op # "UnifiedReasoningChain" => UNCHANGED tacticianVars

C39_Step ==
    /\ thoughtHistory' \in {thoughtHistory, thoughtHistory + 1}
    /\ (thoughtHistory' = thoughtHistory + 1 /\ pc' = pc)
       => /\ response'.args.valid
          /\ C39_Frame(C39_Chosen(response'.args))
          /\ ~response'.isError
             => response'.status = C39_StatusOf(C39_Chosen(response'.args))
    /\ (thoughtHistory' = thoughtHistory + 1 /\ pc' # pc)
       => /\ pc[1] = "idle"
          /\ C39_Chosen(chainArgs(params'[1])) = "UnifiedReasoningChain"
          /\ C39_Frame("UnifiedReasoningChain")
    /\ thoughtHistory' = thoughtHistory
       => IF pc[1] \in {"loop", "exec"}
          THEN C39_Frame("UnifiedReasoningChain")
          ELSE C39_Frame("none")

C39_OneOperation == [][C39_Step]_vars

\* a call carrying the resolve, link and unified chain parameters resolved a
\* stored state: nothing is linked and no chain has started
C39_Witness ==
    /\ response.args.cognitive_resolve_state_id = 0
    /\ response.args.cognitive_link_concepts = <<"A", "B">>
    /\ response.args.unified_reasoning_chain
    /\ response.status = "Resolved cognitive state."
    /\ cognitiveStates[0].resolutionCount = 1
    /\ DOMAIN conceptualLinks = {}
    /\ pc[1] = "idle"

\* C40: the backtracking solver returns a complete assignment (one value of
\* its domain for every variable) that satisfies every constraint, or null
\* exactly when no such assignment exists over the domains it was given.
C40_Names(variables) == { CspVariableNames[k] : k \in 1..Len(variables) }

C40_Satisfying(variables, constraints) ==
    { assignment \in [C40_Names(variables) -> 1..MaxValue] :
        /\ \A k \in 1..Len(variables) :
              \E j \in 1..Len(variables[k]) :
                 variables[k][j] = assignment[CspVariableNames[k]]
        /\ \A k \in 1..Len(constraints) : holds(constraints[k], assignment) }

C40_SolverExact ==
    (pc[1] \in {"returned", "rejected"}
     /\ ~result[1].propagatedVariables.wipeout)
    => LET satisfying ==
               C40_Satisfying(result[1].propagatedVariables.variables,
                              params[1].context.constraints)
       IN  IF result[1].solution.found
           THEN result[1].solution.assignment \in satisfying
           ELSE satisfying = {}

=============================================================================
